---- MODULE Spec2Model ----
(***************************************************************************)
(* Model of the Tana web clipper's text pipeline (glibalien/webclipper):   *)
(* the content chunker, the author parser, the date pipeline and the       *)
(* Tana Paste / node formatters.                                           *)
(*                                                                         *)
(* A JavaScript string is a sequence of one-character strings.  Indices    *)
(* passed to and returned by the string operators are 0-based, as in the   *)
(* source; the operators convert to the 1-based sequences of TLA+.         *)
(***************************************************************************)
EXTENDS Integers, Sequences, FiniteSets, TLC

VARIABLES
    impl,          \* which chunker runs: "TanaPasteBuilder" or "TanaClipperPopup"
    content,       \* the string handed to chunkContent
    limit,         \* the length bound (MAX_CONTENT_LENGTH / maxLength)
    remaining,     \* chunkContent's local `remaining`
    chunks,        \* chunkContent's local `chunks`
    pc,            \* position of the chunker: "idle", "loop" or "done"
    authorString,  \* the argument of parseAuthors
    authors,       \* what parseAuthors returned
    authorsPc,     \* "idle" before parseAuthors is called, "done" after
    pageDate,      \* the published date the page carries
    tzOffset,      \* the browser's local time minus UTC, in minutes
    publishedDate, \* metadata.publishedDate, as the content script returns it
    dateField,     \* the date value the formatter emits
    datePc,        \* "idle", "extracted" (content script ran) or "done"
    formatter,     \* the formatter that ran: TanaPasteBuilder, TanaClient, popup
    clipArgs,      \* the arguments of the formatter call
    nodeCache,     \* NodeCache.cache of TanaClient and the popup
    payload,       \* the payload the formatter returned
    pendingNodes,  \* the pendingNodes the formatter filled
    clipPc,        \* "idle" before the formatter is called, "done" after
    head,          \* the page's metadata sources: meta tags, JSON-LD, bylines
    metadata,      \* what the content script's extractors resolved
    metaPc,        \* "idle" before the extractors run, "done" after
    sessionId,     \* McpClient.sessionId ("" is null)
    storedSession, \* the session id in chrome.storage.local ("" when none)
    requestId,     \* McpClient.requestId
    requestLog,    \* the requests of the current sendRequest, with responses
    outcome,       \* "pending", "returned" or "thrown": how sendRequest ended
    calls,         \* how many times sendRequest was called
    mcpPc,         \* where sendRequest stands
    document,      \* the elements of the page in the tab, in document order
    selection,     \* the element whose contents are selected, 0 when none
    liveRemoved,   \* the elements removed from the live document
    injected,      \* window.__tanaClipperInjected
    listeners,     \* how many onMessage listeners the page has
    injections,    \* how many times content.js was injected into the page
    request,       \* the last message sent to the page
    responses,     \* the responses the listeners sent to it
    region,        \* the element the last content was taken from
    firstClip,     \* the formatter, arguments and payload of the first clip
    clips,         \* how many clips were performed
    breakCall,     \* the last call of findBreakPoint on its own
    probe,         \* the last run of getJsonLd or extractPublishedDate on a page
    article,       \* the last page Readability parsed, and what parse returned
    bgPc,          \* where the handler of the clip stands
    entry,         \* the entry point of the clip
    selectionOnly, \* clipPage's selectionOnly; the popup's checkbox
    settings,      \* what chrome.storage.sync.get returned
    pageInfo,      \* the response to getMetadata
    contentResponse, \* the response to getContent
    fromSelection, \* the content script took the content from the selection
    posted,        \* the payloads posted to Tana
    notice,        \* the notification or status shown to the user
    stored,        \* tanaNodeCache in chrome.storage.local
    cacheOf,       \* NodeCache.cache of each overlapping clip
    pendingOf,     \* pendingNodes of each overlapping clip
    responseOf,    \* what the Input API answered each overlapping clip
    cachePc,       \* where each overlapping clip stands
    issued         \* the session id of the last ok initialize response ("" is none)

chunkerVars == <<impl, content, limit, remaining, chunks, pc>>

authorVars == <<authorString, authors, authorsPc>>

dateVars == <<pageDate, tzOffset, publishedDate, dateField, datePc>>

clipVars == <<formatter, clipArgs, nodeCache, payload, pendingNodes, clipPc>>

metaVars == <<head, metadata, metaPc>>

mcpVars == <<sessionId, storedSession, requestId, requestLog, outcome, calls, mcpPc>>

pageVars ==
    <<document, selection, liveRemoved, injected, listeners, injections, request,
      responses, region>>

reclipVars == <<firstClip, clips>>

bgVars ==
    <<bgPc, entry, selectionOnly, settings, pageInfo, contentResponse, fromSelection,
      posted, notice>>

cacheVars == <<stored, cacheOf, pendingOf, responseOf, cachePc>>

finalVars == <<article, bgVars, cacheVars, issued>>

laterVars == <<breakCall, probe, finalVars>>

extensionVars == <<metaVars, mcpVars, pageVars, reclipVars, laterVars>>

vars == <<chunkerVars, authorVars, dateVars, clipVars, extensionVars>>

(***************************************************************************)
(* Bounds of the model.                                                    *)
(***************************************************************************)
MaxLen == 5       \* longest chunker input
MaxLimit == 3     \* largest length bound tried (the source's is 4500)
MaxDay == 8       \* the page dates tried are the days 1..MaxDay
ClipLimit == 2    \* the length bound of the formatter runs (the source's is 4500)
MaxPieces == 7    \* most fragments an author string is put together from
MaxAuthorItems == 2  \* most entries of a JSON-LD author array
MaxSegments == 3     \* most path segments of an article:author URL
MaxCalls == 2        \* most calls of sendRequest in one behaviour
MaxBlocks == 2       \* most linked-data script blocks on a page
BreakLimit == 7      \* the limit findBreakPoint is called with on its own
MaxClips == 3        \* most clips in one behaviour
MaxInjections == 3   \* most injections of content.js into one page
CharThreshold == 12  \* the minimum character threshold, scaled to the pages tried

(***************************************************************************)
(* Values of the source.                                                   *)
(***************************************************************************)
MinParagraphLength == 10  \* extractParagraphs: text.length > 10

TextBonusFloor == 100  \* _scoreElement: textLength > 100

(***************************************************************************)
(* Strings.                                                                *)
(***************************************************************************)
Min(a, b) == IF a < b THEN a ELSE b

Max(a, b) == IF a > b THEN a ELSE b

SetMax(S) == CHOOSE x \in S : \A y \in S : y <= x

SetMin(S) == CHOOSE x \in S : \A y \in S : x <= y

Strings(Alphabet, n) == UNION {[1..k -> Alphabet] : k \in 0..n}

\* The characters String.prototype.trim removes and the regex class \s matches.
IsSpace(c) == c \in {" ", "\n", "\r", "\t"}

\* The regex class [\r\n].
IsNewline(c) == c \in {"\n", "\r"}

RECURSIVE trimStart(_)
trimStart(s) ==
    IF s # <<>> /\ IsSpace(Head(s)) THEN trimStart(Tail(s)) ELSE s

RECURSIVE trimEnd(_)
trimEnd(s) ==
    IF s # <<>> /\ IsSpace(s[Len(s)]) THEN trimEnd(SubSeq(s, 1, Len(s) - 1)) ELSE s

\* String.prototype.trim
trim(s) == trimEnd(trimStart(s))

\* String.prototype.substring(start, end): both clamped to 0..length, swapped
\* when start > end.
substring(s, start, end) ==
    LET a == Max(0, Min(start, Len(s)))
        b == Max(0, Min(end, Len(s)))
    IN  SubSeq(s, Min(a, b) + 1, Max(a, b))

\* String.prototype.substring(start)
substringFrom(s, start) == substring(s, start, Len(s))

\* Whether pat occurs in text at the 0-based index i.
MatchAt(text, pat, i) ==
    /\ i >= 0
    /\ i + Len(pat) <= Len(text)
    /\ SubSeq(text, i + 1, i + Len(pat)) = pat

\* String.prototype.lastIndexOf(searchString, position): the largest index
\* <= position at which searchString occurs, or -1.
lastIndexOf(text, pat, position) ==
    LET I == {i \in 0..Min(position, Len(text) - Len(pat)) : MatchAt(text, pat, i)}
    IN  IF I = {} THEN -1 ELSE SetMax(I)

\* text.replace(/[\r\n]+/g, ' '): every run of CR/LF becomes one space.
RECURSIVE ReplaceNewlineRuns(_)
ReplaceNewlineRuns(s) ==
    IF s = <<>> THEN <<>>
    ELSE IF IsNewline(Head(s))
         THEN IF Tail(s) # <<>> /\ IsNewline(Head(Tail(s)))
              THEN ReplaceNewlineRuns(Tail(s))
              ELSE <<" ">> \o ReplaceNewlineRuns(Tail(s))
         ELSE <<Head(s)>> \o ReplaceNewlineRuns(Tail(s))

\* TanaPasteBuilder.sanitizeForTanaPaste (and the identical sanitizeNodeName)
sanitizeForTanaPaste(text) == trim(ReplaceNewlineRuns(text))

RECURSIVE Concat(_)
Concat(ss) == IF ss = <<>> THEN <<>> ELSE Head(ss) \o Concat(Tail(ss))

(***************************************************************************)
(* The content chunker of TanaPasteBuilder.                                *)
(***************************************************************************)
sentenceEnders == <<<<".", " ">>, <<"!", " ">>, <<"?", " ">>>>

\* The loop over sentenceEnders: the first ender, in list order, whose last
\* occurrence at or before maxLength lies past half of maxLength.
RECURSIVE SentenceBreak(_, _, _)
SentenceBreak(text, maxLength, k) ==
    IF k > Len(sentenceEnders) THEN -1
    ELSE LET ender == sentenceEnders[k]
             breakPoint == lastIndexOf(text, ender, maxLength)
         IN  IF 2 * breakPoint > maxLength
             THEN breakPoint + Len(ender) - 1
             ELSE SentenceBreak(text, maxLength, k + 1)

\* A hard cut that returns the last index searched for instead of maxLength.
HardCut_LastIndex(text, maxLength) == lastIndexOf(text, <<" ">>, maxLength)

\* The hard cut that ends findBreakPoint.
HardCut(text, maxLength) == maxLength

\* TanaPasteBuilder.findBreakPoint
findBreakPoint(text, maxLength) ==
    LET para == lastIndexOf(text, <<"\n", "\n">>, maxLength)
        line == lastIndexOf(text, <<"\n">>, maxLength)
        sent == SentenceBreak(text, maxLength, 1)
        word == lastIndexOf(text, <<" ">>, maxLength)
    IN  IF 2 * para > maxLength THEN para
        ELSE IF 2 * line > maxLength THEN line
        ELSE IF sent # -1 THEN sent
        ELSE IF 2 * word > maxLength THEN word
        ELSE HardCut(text, maxLength)

\* The chunk one iteration of TanaPasteBuilder.chunkContent pushes.
BuilderChunk(rem, breakPoint) ==
    sanitizeForTanaPaste(trim(substring(rem, 0, breakPoint)))

\* A rest that skips the character at the break point.
RestAfter_SkipsOne(rem, breakPoint) == trim(substringFrom(rem, breakPoint + 1))

\* The text one iteration of chunkContent keeps for the next.
RestAfter(rem, breakPoint) == trim(substringFrom(rem, breakPoint))

\* The break point of TanaClipperPopup.chunkContent: last line break, else
\* last space, else maxLength.
popupBreakPoint(rem, maxLength) ==
    LET line == lastIndexOf(rem, <<"\n">>, maxLength)
        word == lastIndexOf(rem, <<" ">>, maxLength)
    IN  IF ~(line = -1 \/ 2 * line < maxLength) THEN line
        ELSE IF ~(word = -1 \/ 2 * word < maxLength) THEN word
        ELSE maxLength

\* The chunk one iteration of TanaClipperPopup.chunkContent pushes.
PopupChunk(rem, breakPoint) == sanitizeForTanaPaste(substring(rem, 0, breakPoint))

BreakPointOf(which, rem, maxLength) ==
    IF which = "TanaPasteBuilder" THEN findBreakPoint(rem, maxLength)
    ELSE popupBreakPoint(rem, maxLength)

ChunkOf(which, rem, breakPoint) ==
    IF which = "TanaPasteBuilder" THEN BuilderChunk(rem, breakPoint)
    ELSE PopupChunk(rem, breakPoint)

\* chunkContent as a function: the chunks produced from `rem` on.
RECURSIVE ChunksFrom(_, _, _)
ChunksFrom(which, rem, maxLength) ==
    IF Len(rem) = 0 THEN <<>>
    ELSE IF Len(rem) <= maxLength THEN <<sanitizeForTanaPaste(rem)>>
    ELSE LET breakPoint == BreakPointOf(which, rem, maxLength)
         IN  <<ChunkOf(which, rem, breakPoint)>>
                 \o ChunksFrom(which, RestAfter(rem, breakPoint), maxLength)

\* TanaPasteBuilder.chunkContent
chunkContent(text, maxLength) == ChunksFrom("TanaPasteBuilder", text, maxLength)

\* TanaClipperPopup.chunkContent
popupChunkContent(text, maxLength) == ChunksFrom("TanaClipperPopup", text, maxLength)

(***************************************************************************)
(* The chunker as a state machine: one action per loop iteration.          *)
(***************************************************************************)
ChunkAlphabet == {"a", " ", ".", "!", "\n"}

ChunkerIdle ==
    /\ impl = "TanaPasteBuilder"
    /\ content = <<>>
    /\ limit = 1
    /\ remaining = <<>>
    /\ chunks = <<>>
    /\ pc = "idle"

AuthorsIdle ==
    /\ authorString = <<>>
    /\ authors = <<>>
    /\ authorsPc = "idle"

\* A value that is missing (null or undefined).
NoValue == [fmt |-> "none"]

DateIdle ==
    /\ pageDate = NoValue
    /\ tzOffset = 0
    /\ publishedDate = NoValue
    /\ dateField = NoValue
    /\ datePc = "idle"

ClipIdle ==
    /\ formatter = "none"
    /\ clipArgs = NoValue
    /\ nodeCache = <<>>
    /\ payload = NoValue
    /\ pendingNodes = <<>>
    /\ clipPc = "idle"

MetaIdle ==
    /\ head = NoValue
    /\ metadata = NoValue
    /\ metaPc = "idle"

McpIdle ==
    /\ sessionId = ""
    /\ storedSession = ""
    /\ requestId = 0
    /\ requestLog = <<>>
    /\ outcome = "pending"
    /\ calls = 0
    /\ mcpPc = "idle"

\* about:blank, before any page is loaded.
BlankPage ==
    /\ document = <<>>
    /\ selection = 0
    /\ liveRemoved = {}
    /\ injected = FALSE
    /\ listeners = 0
    /\ injections = 0
    /\ request = [action |-> "none"]
    /\ responses = <<>>
    /\ region = 0

NoClipYet ==
    /\ firstClip = NoValue
    /\ clips = 0

BackgroundIdle ==
    /\ bgPc = "idle"
    /\ entry = "none"
    /\ selectionOnly = FALSE
    /\ settings = NoValue
    /\ pageInfo = NoValue
    /\ contentResponse = NoValue
    /\ fromSelection = FALSE
    /\ posted = <<>>
    /\ notice = "none"

CacheIdle ==
    /\ stored = <<>>
    /\ cacheOf = [p \in {1, 2} |-> <<>>]
    /\ pendingOf = [p \in {1, 2} |-> <<>>]
    /\ responseOf = [p \in {1, 2} |-> "none"]
    /\ cachePc = [p \in {1, 2} |-> "idle"]

FinalIdle == article = NoValue /\ BackgroundIdle /\ CacheIdle /\ issued = ""

Init == ChunkerIdle /\ AuthorsIdle /\ DateIdle /\ ClipIdle /\ MetaIdle /\ McpIdle /\ BlankPage
        /\ NoClipYet /\ breakCall = NoValue
        /\ probe = NoValue
        /\ FinalIdle

\* chunkContent(content) is called: const chunks = []; let remaining = content.
ChunkCall ==
    /\ pc = "idle"
    /\ \E which \in {"TanaPasteBuilder", "TanaClipperPopup"},
          text \in Strings(ChunkAlphabet, MaxLen),
          maxLength \in 1..MaxLimit :
            /\ impl' = which
            /\ content' = text
            /\ limit' = maxLength
            /\ remaining' = text
    /\ chunks' = <<>>
    /\ pc' = "loop"
    /\ UNCHANGED <<extensionVars, authorVars, dateVars, clipVars>>

\* while (remaining.length > 0) fails: return chunks.
ChunkExit ==
    /\ pc = "loop"
    /\ Len(remaining) = 0
    /\ pc' = "done"
    /\ UNCHANGED <<extensionVars, impl, content, limit, remaining, chunks, authorVars, dateVars, clipVars>>

\* remaining fits: push it and break.
ChunkLast ==
    /\ pc = "loop"
    /\ Len(remaining) > 0
    /\ Len(remaining) <= limit
    /\ chunks' = Append(chunks, sanitizeForTanaPaste(remaining))
    /\ pc' = "done"
    /\ UNCHANGED <<extensionVars, impl, content, limit, remaining, authorVars, dateVars, clipVars>>

\* remaining is too long: cut one chunk off at the break point.
ChunkSplit ==
    /\ pc = "loop"
    /\ Len(remaining) > limit
    /\ LET breakPoint == BreakPointOf(impl, remaining, limit)
       IN  /\ chunks' = Append(chunks, ChunkOf(impl, remaining, breakPoint))
           /\ remaining' = RestAfter(remaining, breakPoint)
    /\ UNCHANGED <<extensionVars, impl, content, limit, pc, authorVars, dateVars, clipVars>>

NextChunker == ChunkCall \/ ChunkExit \/ ChunkLast \/ ChunkSplit

SpecChunker == Init /\ [][NextChunker]_vars

\* The loop is ordinary sequential code: it keeps running while it can.
SpecChunkerFair == SpecChunker /\ WF_vars(NextChunker)

(***************************************************************************)
(* Claims about the chunker.                                               *)
(***************************************************************************)
IsBuilder == impl = "TanaPasteBuilder"

\* C1: every chunk returned by the chunker (chunkContent with findBreakPoint
\* and limit L >= 1) has length at most L.
C1_ChunksWithinLimit ==
    IsBuilder => \A i \in 1..Len(chunks) : Len(chunks[i]) <= limit

\* C2: no chunk returned by the chunker is the empty string.
C2_NoEmptyChunk ==
    IsBuilder => \A i \in 1..Len(chunks) : chunks[i] # <<>>

\* C3: the chunker terminates: every iteration that continues the loop
\* leaves strictly less remaining text, so the remaining length (a natural
\* number) strictly decreases until the final chunk is emitted.
C3_ChunkerTerminates ==
    [][pc = "loop" /\ pc' = "loop" => Len(remaining') < Len(remaining)]_vars

\* C3 witness: the builder's loop has ended after splitting an over-length
\* text that has no natural boundary (hard cuts only).
C3_Witness ==
    /\ IsBuilder
    /\ pc = "done"
    /\ Len(chunks) >= 3
    /\ \A i \in 1..Len(content) : content[i] = "a"

StripSpace(s) == SelectSeq(s, LAMBDA c : ~IsSpace(c))

\* C4: chunking loses, duplicates and reorders nothing: with all whitespace
\* deleted, the concatenation of the returned chunks equals the input
\* (both chunkers).
C4_ChunksPreserveContent ==
    pc = "done" => StripSpace(Concat(chunks)) = StripSpace(content)

\* C4 witness: a finished run on a trimmed input that was split into several
\* non-empty chunks and dropped whitespace at a boundary.
C4_Witness ==
    /\ pc = "done"
    /\ Len(chunks) >= 2
    /\ \A i \in 1..Len(chunks) : chunks[i] # <<>>
    /\ trim(content) = content
    /\ Concat(chunks) # content

\* C5: re-running the chunker with the same bound on any chunk it produced
\* returns exactly that one chunk.
C5_RechunkIsIdentity ==
    IsBuilder =>
        \A i \in 1..Len(chunks) : chunkContent(chunks[i], limit) = <<chunks[i]>>

(***************************************************************************)
(* parseAuthors.                                                           *)
(***************************************************************************)
\* The /i flag, for the letters of "and".
Lower(c) ==
    IF c = "A" THEN "a" ELSE IF c = "N" THEN "n" ELSE IF c = "D" THEN "d" ELSE c

\* Whether the letters "and", in any case, stand at the 1-based index j.
IsAndAt(s, j) ==
    /\ j >= 1
    /\ j + 2 <= Len(s)
    /\ <<Lower(s[j]), Lower(s[j + 1]), Lower(s[j + 2])>> = <<"a", "n", "d">>

\* A greedy \s*: the first 1-based index >= i that holds no whitespace.
RECURSIVE SkipSpace(_, _)
SkipSpace(s, i) ==
    IF i <= Len(s) /\ IsSpace(s[i]) THEN SkipSpace(s, i + 1) ELSE i

\* normalized.replace(/\s+and\s+/gi, ', ') from the 1-based index i on:
\* leftmost matches, each taking all the whitespace on both sides.
RECURSIVE ReplaceAnd(_, _)
ReplaceAnd(s, i) ==
    IF i > Len(s) THEN <<>>
    ELSE LET j == SkipSpace(s, i)
             k == SkipSpace(s, j + 3)
         IN  IF j > i /\ IsAndAt(s, j) /\ k > j + 3
             THEN <<",", " ">> \o ReplaceAnd(s, k)
             ELSE <<s[i]>> \o ReplaceAnd(s, i + 1)

\* normalized.replace(/\s*&\s*/g, ', ') from the 1-based index i on.
RECURSIVE ReplaceAmp(_, _)
ReplaceAmp(s, i) ==
    IF i > Len(s) THEN <<>>
    ELSE LET j == SkipSpace(s, i)
         IN  IF j <= Len(s) /\ s[j] = "&"
             THEN <<",", " ">> \o ReplaceAmp(s, SkipSpace(s, j + 1))
             ELSE <<s[i]>> \o ReplaceAmp(s, i + 1)

\* String.prototype.split(',')
RECURSIVE SplitComma(_)
SplitComma(s) ==
    IF \A i \in 1..Len(s) : s[i] # ","
    THEN <<s>>
    ELSE LET i == CHOOSE i \in 1..Len(s) :
                      s[i] = "," /\ \A h \in 1..(i - 1) : s[h] # ","
         IN  <<SubSeq(s, 1, i - 1)>> \o SplitComma(SubSeq(s, i + 1, Len(s)))

\* .map(author => author.trim())
TrimEach(pieces) == [i \in 1..Len(pieces) |-> trim(pieces[i])]

\* .filter(author => author.length > 0)
NonEmptyOnly(pieces) == SelectSeq(pieces, LAMBDA piece : Len(piece) > 0)

\* A parseAuthors without the '&' replacement.
parseAuthors_NoAmp(s) ==
    NonEmptyOnly(TrimEach(SplitComma(ReplaceAnd(trim(s), 1))))

\* TanaPasteBuilder.parseAuthors (TanaClient's and the popup's are the same)
parseAuthors(s) ==
    NonEmptyOnly(TrimEach(SplitComma(ReplaceAmp(ReplaceAnd(trim(s), 1), 1))))

AuthorFragments == {<<"x">>, <<" ">>, <<"a", "n", "d">>, <<",">>, <<"&">>}

MixedCaseFragments == AuthorFragments \cup {<<"A", "n", "D">>}

\* parseAuthors(authorString) is called and returns.  The author string is
\* put together from at most MaxPieces fragments; the shorter ones also with
\* "and" in mixed case.
ParseAuthorsCall ==
    /\ authorsPc = "idle"
    /\ \E k \in 0..MaxPieces :
          \E fs \in [1..k -> IF k + 2 <= MaxPieces THEN MixedCaseFragments
                                                  ELSE AuthorFragments] :
              /\ authorString' = Concat(fs)
              /\ authors' = parseAuthors(Concat(fs))
    /\ authorsPc' = "done"
    /\ UNCHANGED <<extensionVars, chunkerVars, dateVars, clipVars>>

NextAuthors == ParseAuthorsCall

SpecAuthors == Init /\ [][NextAuthors]_vars

(***************************************************************************)
(* Claims about parseAuthors.                                              *)
(***************************************************************************)
\* The letters "and" at the 1-based index j with whitespace on both sides.
AndDelimitedAt(s, j) ==
    /\ IsAndAt(s, j)
    /\ j > 1
    /\ IsSpace(s[j - 1])
    /\ j + 3 <= Len(s)
    /\ IsSpace(s[j + 3])

\* The 1-based index at which the whitespace run that ends at index i starts.
RECURSIVE RunStart(_, _)
RunStart(s, i) ==
    IF i > 1 /\ IsSpace(s[i - 1]) THEN RunStart(s, i - 1) ELSE i

\* A whitespace-delimited "and" is a connective unless the whitespace before
\* it is the whitespace after a preceding connective "and".
RECURSIVE AndIsConnective(_, _)
AndIsConnective(s, j) ==
    /\ AndDelimitedAt(s, j)
    /\ LET p == RunStart(s, j - 1)
       IN  ~(p - 3 >= 1 /\ AndIsConnective(s, p - 3))

\* The pieces of s between the positions marked in mask, trimmed, without
\* the empty ones, in order.
RECURSIVE PiecesFrom(_, _, _, _)
PiecesFrom(s, mask, i, piece) ==
    IF i > Len(s) THEN NonEmptyOnly(<<trim(piece)>>)
    ELSE IF mask[i]
         THEN NonEmptyOnly(<<trim(piece)>>) \o PiecesFrom(s, mask, i + 1, <<>>)
         ELSE PiecesFrom(s, mask, i + 1, Append(piece, s[i]))

\* Splitting at every comma, every '&' and every whitespace-delimited "and".
LiteralPieces(s) ==
    LET mask == [i \in 1..Len(s) |->
                    \/ s[i] \in {",", "&"}
                    \/ \E j \in {i - 2, i - 1, i} : AndDelimitedAt(s, j)]
    IN  PiecesFrom(s, mask, 1, <<>>)

\* Splitting at every comma, every '&' and every connective "and".
ConnectivePieces(s) ==
    LET mask == [i \in 1..Len(s) |->
                    \/ s[i] \in {",", "&"}
                    \/ \E j \in {i - 2, i - 1, i} : AndIsConnective(s, j)]
    IN  PiecesFrom(s, mask, 1, <<>>)

\* No name is empty, has leading or trailing whitespace, or holds ',' or '&'.
NamesAreClean(names) ==
    \A i \in 1..Len(names) :
        /\ names[i] # <<>>
        /\ trim(names[i]) = names[i]
        /\ \A h \in 1..Len(names[i]) : names[i][h] \notin {",", "&"}

\* C9 as stated: parseAuthors returns exactly the non-empty trimmed pieces of
\* the input split at commas, whitespace-delimited "and" and '&'; the names
\* are clean; a blank input yields the empty sequence.
C9_ParseAuthorsAsStated ==
    authorsPc = "done" =>
        /\ authors = LiteralPieces(authorString)
        /\ NamesAreClean(authors)
        /\ (trim(authorString) = <<>> => authors = <<>>)

\* C9 amended: the input is trimmed first, and a whitespace-delimited "and"
\* splits only when the whitespace before it was not taken by a preceding
\* connective "and"; all else as stated.
C9_ParseAuthors ==
    authorsPc = "done" =>
        /\ authors = ConnectivePieces(trim(authorString))
        /\ NamesAreClean(authors)
        /\ (trim(authorString) = <<>> => authors = <<>>)

\* C9 witness: an input with a comma, a mixed-case "and" that splits, an
\* "and" that follows it and is kept, and an '&'.
C9_Witness ==
    /\ authorsPc = "done"
    /\ authorString = <<"x", " ", "a", "n", "d", " ", "a", "n", "d", " ", "x">>
    /\ authors = <<<<"x">>, <<"a", "n", "d", " ", "x">>>>

(***************************************************************************)
(* Dates.  A date string is a record: the ISO calendar date "2024-01-15"   *)
(* is IsoDate(d), the long en-US date "January 15, 2024" is LongDate(d),   *)
(* with d the day's number; NotADate is a string no Date can be parsed     *)
(* from.  An instant is a number of minutes since the epoch.               *)
(***************************************************************************)
MinutesPerDay == 24 * 60

IsoDate(d) == [fmt |-> "iso", day |-> d]

LongDate(d) == [fmt |-> "long", day |-> d]

NotADate == [fmt |-> "other"]

\* Local time minus UTC, in minutes, of the time zones tried.
TzOffsets == {0 - 720, 0 - 300, 0 - 60, 0, 60, 330, 540, 840}

\* isNaN(new Date(dateStr).getTime())
IsInvalidDate(dateStr) == dateStr.fmt \notin {"iso", "long"}

\* new Date(dateStr).getTime() of a valid date string: a date-only ISO string
\* is UTC midnight, any other date string is midnight local time.
DateParse(dateStr, off) ==
    IF dateStr.fmt = "iso"
    THEN dateStr.day * MinutesPerDay
    ELSE dateStr.day * MinutesPerDay - off

\* date.toLocaleDateString('en-US', {year, month: 'long', day}): the calendar
\* day of the instant in local time.
toLocaleDateString(t, off) == LongDate((t + off) \div MinutesPerDay)

\* date.toISOString().split('T')[0]: the calendar day of the instant in UTC.
toISODay(t) == t \div MinutesPerDay

\* content.js formatDate
formatDate(dateStr, off) ==
    IF IsInvalidDate(dateStr)
    THEN dateStr
    ELSE toLocaleDateString(DateParse(dateStr, off), off)

\* The token [[date:YYYY-MM-DD]] (or the bare YYYY-MM-DD) for the day d.
DateToken(d) == [dataType |-> "date", day |-> d]

\* A formatDateValue that formats whatever Date it gets.
formatDateValue_NoNaNCheck(dateStr, off) ==
    IF IsInvalidDate(dateStr)
    THEN [dataType |-> "date", day |-> "NaN"]
    ELSE DateToken(toISODay(DateParse(dateStr, off)))

\* TanaPasteBuilder.formatDateValue; NoValue is its null.
formatDateValue(dateStr, off) ==
    IF ~IsInvalidDate(dateStr)
    THEN DateToken(toISODay(DateParse(dateStr, off)))
    ELSE NoValue

\* TanaClient.formatDateForTana and the popup's: the same, as a bare day.
formatDateForTana(dateStr, off) ==
    IF ~IsInvalidDate(dateStr)
    THEN DateToken(toISODay(DateParse(dateStr, off)))
    ELSE NoValue

\* content.js extractPublishedDate on a page whose first date source holds
\* pageDate: metadata.publishedDate = formatDate(value).
ExtractPublishedDate ==
    /\ datePc = "idle"
    /\ \E d \in {IsoDate(n) : n \in 1..MaxDay} \cup {NotADate}, off \in TzOffsets :
          /\ pageDate' = d
          /\ tzOffset' = off
          /\ publishedDate' = formatDate(d, off)
    /\ datePc' = "extracted"
    /\ UNCHANGED <<extensionVars, dateField, chunkerVars, authorVars, clipVars>>

\* The formatter turns metadata.publishedDate into the date field's value.
FormatDateField ==
    /\ datePc = "extracted"
    /\ \E which \in {"TanaPasteBuilder", "TanaClient"} :
          dateField' = IF which = "TanaPasteBuilder"
                       THEN formatDateValue(publishedDate, tzOffset)
                       ELSE formatDateForTana(publishedDate, tzOffset)
    /\ datePc' = "done"
    /\ UNCHANGED <<extensionVars, pageDate, tzOffset, publishedDate, chunkerVars, authorVars, clipVars>>

NextDate == ExtractPublishedDate \/ FormatDateField

SpecDate == Init /\ [][NextDate]_vars

\* C7: for a page whose published date is the ISO calendar date D, the date
\* field emitted at the end of the pipeline is the token of the same day D,
\* for every local time-zone offset.
C7_DateFieldIsSameDay ==
    (datePc = "done" /\ pageDate.fmt = "iso") => dateField = DateToken(pageDate.day)

(***************************************************************************)
(* content.js: the metadata extractors.  A meta tag that is missing and    *)
(* one whose content is "" are both the empty string: the extractors only  *)
(* test for truthiness.  null is NoValue.                                  *)
(***************************************************************************)
LowerCaseLetters ==
    <<"a", "b", "c", "d", "e", "f", "g", "h", "i", "j", "k", "l", "m",
      "n", "o", "p", "q", "r", "s", "t", "u", "v", "w", "x", "y", "z">>

UpperCaseLetters ==
    <<"A", "B", "C", "D", "E", "F", "G", "H", "I", "J", "K", "L", "M",
      "N", "O", "P", "Q", "R", "S", "T", "U", "V", "W", "X", "Y", "Z">>

\* toLowerCase / toUpperCase of one character.
CharToLowerCase(c) ==
    IF \E i \in 1..Len(UpperCaseLetters) : UpperCaseLetters[i] = c
    THEN LowerCaseLetters[CHOOSE i \in 1..Len(UpperCaseLetters) : UpperCaseLetters[i] = c]
    ELSE c

CharToUpperCase(c) ==
    IF \E i \in 1..Len(LowerCaseLetters) : LowerCaseLetters[i] = c
    THEN UpperCaseLetters[CHOOSE i \in 1..Len(LowerCaseLetters) : LowerCaseLetters[i] = c]
    ELSE c

toLowerCase(s) == [i \in 1..Len(s) |-> CharToLowerCase(s[i])]

\* text.replace(/\s+/g, ' ') from the 1-based index i on.
RECURSIVE CollapseSpace(_, _)
CollapseSpace(s, i) ==
    IF i > Len(s) THEN <<>>
    ELSE IF IsSpace(s[i])
         THEN <<" ">> \o CollapseSpace(s, SkipSpace(s, i))
         ELSE <<s[i]>> \o CollapseSpace(s, i + 1)

\* content.js cleanText
cleanText(text) == trim(CollapseSpace(text, 1))

\* The first 1-based index >= i of s that holds a character of `stops`, or
\* Len(s) + 1.
RECURSIVE IndexOfAny(_, _, _)
IndexOfAny(s, stops, i) ==
    IF i > Len(s) \/ s[i] \in stops THEN i ELSE IndexOfAny(s, stops, i + 1)

\* The first 1-based index >= i of s that holds no slash.
RECURSIVE SkipSlashes(_, _)
SkipSlashes(s, i) ==
    IF i <= Len(s) /\ s[i] \in {"/", "\\"} THEN SkipSlashes(s, i + 1) ELSE i

HttpScheme == <<"h", "t", "t", "p", ":">>

HttpsScheme == <<"h", "t", "t", "p", "s", ":">>

\* new URL(str) for the http and https schemes: leading and trailing
\* whitespace is stripped, the scheme is case-insensitive, any number of
\* slashes may follow it, the host may not be empty.  The record holds the
\* 1-based index at which the path starts; ok is FALSE when the constructor
\* throws or the protocol is another one.
ParseUrl(str) ==
    LET s == trim(str)
        lower == toLowerCase(s)
        afterScheme == IF MatchAt(lower, HttpsScheme, 0) THEN Len(HttpsScheme) + 1
                       ELSE IF MatchAt(lower, HttpScheme, 0) THEN Len(HttpScheme) + 1
                       ELSE 0
        hostStart == SkipSlashes(s, afterScheme)
        hostEnd == IndexOfAny(s, {"/", "\\", "?", "#"}, hostStart)
    IN  IF afterScheme = 0 \/ hostEnd = hostStart
        THEN [ok |-> FALSE]
        ELSE [ok |-> TRUE, href |-> s, pathStart |-> hostEnd]

\* content.js isUrl
isUrl(str) == ParseUrl(str).ok

\* URL.pathname: from the end of the host to the query or the fragment.
pathname(url) ==
    SubSeq(url.href, url.pathStart,
           IndexOfAny(url.href, {"?", "#"}, url.pathStart) - 1)

\* String.prototype.split(sep) for a one-character separator.
RECURSIVE SplitAt(_, _)
SplitAt(s, sep) ==
    IF \A i \in 1..Len(s) : s[i] # sep
    THEN <<s>>
    ELSE LET i == CHOOSE i \in 1..Len(s) :
                      s[i] = sep /\ \A j \in 1..(i - 1) : s[j] # sep
         IN  <<SubSeq(s, 1, i - 1)>> \o SplitAt(SubSeq(s, i + 1, Len(s)), sep)

\* Array.prototype.join(sep)
RECURSIVE Join(_, _)
Join(parts, sep) ==
    IF parts = <<>> THEN <<>>
    ELSE IF Len(parts) = 1 THEN parts[1]
    ELSE parts[1] \o sep \o Join(Tail(parts), sep)

\* word.charAt(0).toUpperCase() + word.slice(1).toLowerCase()
Capitalize(word) ==
    IF word = <<>> THEN <<>>
    ELSE <<CharToUpperCase(word[1])>> \o toLowerCase(Tail(word))

AuthorMarkers == {<<"b", "y">>, <<"a", "u", "t", "h", "o", "r">>,
                  <<"a", "u", "t", "h", "o", "r", "s">>}

\* An extractAuthorFromUrl that looks for the last marker segment.
extractAuthorFromUrl_LastMarker(url) ==
    LET pathParts == NonEmptyOnly(SplitAt(pathname(ParseUrl(url)), "/"))
        marked == {i \in 1..Len(pathParts) : pathParts[i] \in AuthorMarkers}
        byIndex == IF marked = {} THEN 0 ELSE SetMax(marked)
    IN  IF ParseUrl(url).ok /\ byIndex # 0 /\ byIndex + 1 <= Len(pathParts)
        THEN LET words == SplitAt(pathParts[byIndex + 1], "-")
             IN  Join([i \in 1..Len(words) |-> Capitalize(words[i])], <<" ">>)
        ELSE <<>>

\* content.js extractAuthorFromUrl; its null is the empty string, which the
\* caller cannot tell from it.
extractAuthorFromUrl(url) ==
    LET pathParts == NonEmptyOnly(SplitAt(pathname(ParseUrl(url)), "/"))
        marked == {i \in 1..Len(pathParts) : pathParts[i] \in AuthorMarkers}
        byIndex == IF marked = {} THEN 0
                   ELSE CHOOSE i \in marked : \A j \in marked : i <= j
    IN  IF ParseUrl(url).ok /\ byIndex # 0 /\ byIndex + 1 <= Len(pathParts)
        THEN LET words == SplitAt(pathParts[byIndex + 1], "-")
             IN  Join([i \in 1..Len(words) |-> Capitalize(words[i])], <<" ">>)
        ELSE <<>>

(***************************************************************************)
(* The formatters.  A payload is the root [name, tag, children]; a child   *)
(* is a field [kind |-> "field", field, key, values] or a content node     *)
(* [kind |-> "content", name].  In Tana Paste a field with one value is    *)
(* the line "  - key:: value", a field with several values the line        *)
(* "  - key::" followed by one "    - value" line per value.               *)
(*                                                                         *)
(* A missing string (null, undefined) is the empty string: the formatters  *)
(* only test strings for truthiness.  A missing tag is "".                 *)
(*                                                                         *)
(* fieldMappings is one record for the three formatters: author, url,      *)
(* date and publication are the builder's authorFieldName, urlFieldName,   *)
(* dateFieldName and publicationFieldName and the node formatters' author, *)
(* url, date and publication; authorType = "reference" is the builder's    *)
(* authorType === 'reference' and the node formatters' authorFieldType === *)
(* 'supertag'; authorTag is authorTagName, respectively authorSupertagId;  *)
(* likewise for the publication.  present is the truthiness of the         *)
(* fieldMappings object itself.                                            *)
(***************************************************************************)
Untitled == <<"U", "n", "t", "i", "t", "l", "e", "d">>

SelectionPrefix ==
    <<"S", "e", "l", "e", "c", "t", "i", "o", "n", " ", "f", "r", "o", "m", ":", " ">>

\* A plain text value: "name" in Tana Paste, {name} in a node.
PlainValue(text) == [dataType |-> "plain", name |-> text]

\* A tagged entity: [[name #[[tag]]]] in Tana Paste, {name, supertags: [{id}]}
\* in a node.
TaggedValue(text, tag) == [dataType |-> "tagged", name |-> text, tag |-> tag]

\* The markdown link [label](url) of Tana Paste.
LinkValue(label, url) == [dataType |-> "url", name |-> label, url |-> url]

\* {dataType: 'url', name} of a node.
UrlValue(text) == [dataType |-> "url", name |-> text]

\* {dataType: 'reference', id} of a node.
ReferenceValue(id) == [dataType |-> "reference", id |-> id]

Field(field, key, values) ==
    [kind |-> "field", field |-> field, key |-> key, values |-> values]

ContentNode(text) == [kind |-> "content", name |-> text]

OrElse(a, b) == IF a # <<>> THEN a ELSE b

\* A formatAuthorValue that never tags.
formatAuthorValue_NeverTags(authorStr, authorTagName) ==
    LET names == parseAuthors(authorStr)
    IN  IF Len(names) = 0
        THEN <<PlainValue(sanitizeForTanaPaste(authorStr))>>
        ELSE [i \in 1..Len(names) |-> PlainValue(sanitizeForTanaPaste(names[i]))]

\* TanaPasteBuilder.formatAuthorValue: the values of the author field (one
\* value stands for the returned string, several for the returned array).
formatAuthorValue(authorStr, authorTagName) ==
    LET names == parseAuthors(authorStr)
    IN  IF Len(names) = 0
        THEN <<PlainValue(sanitizeForTanaPaste(authorStr))>>
        ELSE [i \in 1..Len(names) |->
                 IF authorTagName # ""
                 THEN TaggedValue(sanitizeForTanaPaste(names[i]), authorTagName)
                 ELSE PlainValue(sanitizeForTanaPaste(names[i]))]

\* TanaPasteBuilder.formatUrlValue
formatUrlValue(title, url) ==
    LinkValue(sanitizeForTanaPaste(OrElse(title, url)), url)

\* TanaPasteBuilder.formatPublicationValue
formatPublicationValue(name, tagName) ==
    IF tagName # ""
    THEN TaggedValue(sanitizeForTanaPaste(name), tagName)
    ELSE PlainValue(sanitizeForTanaPaste(name))

\* A content loop that keeps the paragraphs that sanitize to nothing.
RECURSIVE ContentNodes_KeepsEmpty(_, _, _)
ContentNodes_KeepsEmpty(which, paragraphs, maxLength) ==
    IF paragraphs = <<>> THEN <<>>
    ELSE LET sanitized == sanitizeForTanaPaste(Head(paragraphs))
             rest == ContentNodes_KeepsEmpty(which, Tail(paragraphs), maxLength)
             pieces == ChunksFrom(which, sanitized, maxLength)
         IN  IF Len(sanitized) > maxLength
             THEN [i \in 1..Len(pieces) |-> ContentNode(pieces[i])] \o rest
             ELSE <<ContentNode(sanitized)>> \o rest

\* The content loop of all three formatters: every paragraph is sanitized,
\* dropped when empty, chunked when longer than maxLength.
RECURSIVE ContentNodes(_, _, _)
ContentNodes(which, paragraphs, maxLength) ==
    IF paragraphs = <<>> THEN <<>>
    ELSE LET sanitized == sanitizeForTanaPaste(Head(paragraphs))
             rest == ContentNodes(which, Tail(paragraphs), maxLength)
             pieces == ChunksFrom(which, sanitized, maxLength)
         IN  IF sanitized = <<>> THEN rest
             ELSE IF Len(sanitized) > maxLength
                  THEN [i \in 1..Len(pieces) |-> ContentNode(pieces[i])] \o rest
                  ELSE <<ContentNode(sanitized)>> \o rest

\* The root's name.
NodeName(title, isSelection) ==
    LET sanitizedTitle == sanitizeForTanaPaste(OrElse(title, Untitled))
    IN  IF isSelection THEN SelectionPrefix \o sanitizedTitle ELSE sanitizedTitle

\* TanaPasteBuilder.buildClip
buildClip(a, off, maxLength) ==
    LET fm == a.fieldMappings
        md == a.metadata
        authorField ==
            IF md.author # <<>> /\ fm.author # ""
            THEN <<Field("author", fm.author,
                         formatAuthorValue(md.author,
                             IF fm.authorType = "reference" THEN fm.authorTag ELSE ""))>>
            ELSE <<>>
        urlField ==
            IF md.url # <<>> /\ fm.url # ""
            THEN <<Field("url", fm.url, <<formatUrlValue(a.title, md.url)>>)>>
            ELSE <<>>
        dateVal ==
            IF md.publishedDate # NoValue
            THEN formatDateValue(md.publishedDate, off) ELSE NoValue
        dateFieldOf ==
            IF md.publishedDate # NoValue /\ fm.date # "" /\ dateVal # NoValue
            THEN <<Field("date", fm.date, <<dateVal>>)>>
            ELSE <<>>
        publicationField ==
            IF md.publication # <<>> /\ fm.publication # ""
            THEN <<Field("publication", fm.publication,
                         <<formatPublicationValue(md.publication,
                             IF fm.publicationType = "reference"
                             THEN fm.publicationTag ELSE "")>>)>>
            ELSE <<>>
        fields ==
            IF fm.present
            THEN authorField \o urlField \o dateFieldOf \o publicationField
            ELSE <<>>
    IN  [name |-> NodeName(a.title, a.isSelection),
         tag |-> a.tagId,
         children |-> fields \o ContentNodes("TanaPasteBuilder", a.content, maxLength)]

(***************************************************************************)
(* TanaClient and the popup: nodes with a node-id cache.                   *)
(***************************************************************************)
\* NodeCache.getCacheKey: `${supertagId}:${name.toLowerCase().trim()}`
getCacheKey(supertagId, name) ==
    <<supertagId, trim([i \in 1..Len(name) |-> Lower(name[i])])>>

\* NodeCache.get: the cached id, or "" (null).
CacheGet(cache, supertagId, name) ==
    IF getCacheKey(supertagId, name) \in DOMAIN cache
    THEN cache[getCacheKey(supertagId, name)]
    ELSE ""

\* One tagged entity of createAuthorField / createPublicationField: a
\* reference to the cached node, or a new tagged node.
EntityValue(cache, supertagId, sanitizedName) ==
    IF CacheGet(cache, supertagId, sanitizedName) # ""
    THEN ReferenceValue(CacheGet(cache, supertagId, sanitizedName))
    ELSE TaggedValue(sanitizedName, supertagId)

\* The pendingNodes entries one entity adds.
EntityPending(cache, supertagId, sanitizedName) ==
    IF CacheGet(cache, supertagId, sanitizedName) # ""
    THEN <<>>
    ELSE <<[name |-> sanitizedName, supertagId |-> supertagId]>>

\* TanaClient.createAuthorField: the field's children.
createAuthorField(cache, authorValue, authorSupertagId) ==
    LET names == NonEmptyOnly(
                     [i \in 1..Len(parseAuthors(authorValue)) |->
                         sanitizeForTanaPaste(parseAuthors(authorValue)[i])])
    IN  IF Len(names) = 0
        THEN <<PlainValue(sanitizeForTanaPaste(authorValue))>>
        ELSE [i \in 1..Len(names) |-> EntityValue(cache, authorSupertagId, names[i])]

RECURSIVE PendingOf(_, _, _)
PendingOf(cache, supertagId, names) ==
    IF names = <<>> THEN <<>>
    ELSE EntityPending(cache, supertagId, Head(names))
             \o PendingOf(cache, supertagId, Tail(names))

\* TanaClient.createAuthorField: what it appends to pendingNodes.
authorPending(cache, authorValue, authorSupertagId) ==
    PendingOf(cache, authorSupertagId,
              NonEmptyOnly([i \in 1..Len(parseAuthors(authorValue)) |->
                               sanitizeForTanaPaste(parseAuthors(authorValue)[i])]))

\* TanaClient.createPublicationField: the field's children.
createPublicationField(cache, publicationValue, publicationSupertagId) ==
    LET sanitizedName == sanitizeForTanaPaste(publicationValue)
    IN  IF sanitizedName # <<>>
        THEN <<EntityValue(cache, publicationSupertagId, sanitizedName)>>
        ELSE <<PlainValue(publicationValue)>>

\* TanaClient.createPublicationField: what it appends to pendingNodes.
publicationPending(cache, publicationValue, publicationSupertagId) ==
    PendingOf(cache, publicationSupertagId,
              NonEmptyOnly(<<sanitizeForTanaPaste(publicationValue)>>))

\* TanaClient.createField
createField(value, dataType) ==
    IF dataType = "url" THEN <<UrlValue(sanitizeForTanaPaste(value))>>
    ELSE IF dataType = "date" THEN <<value>>
    ELSE <<PlainValue(sanitizeForTanaPaste(value))>>

\* The fields of TanaClient.buildNode and of the popup's buildTanaPayload:
\* they differ in the url value only, which the popup does not sanitize.
NodeFields(which, a, cache, off) ==
    LET fm == a.fieldMappings
        md == a.metadata
        authorField ==
            IF md.author # <<>> /\ fm.author # ""
            THEN IF fm.authorType = "reference" /\ fm.authorTag # ""
                 THEN <<Field("author", fm.author,
                              createAuthorField(cache, md.author, fm.authorTag))>>
                 ELSE <<Field("author", fm.author, createField(md.author, "plain"))>>
            ELSE <<>>
        urlField ==
            IF md.url # <<>> /\ fm.url # ""
            THEN IF which = "TanaClient"
                 THEN <<Field("url", fm.url, createField(md.url, "url"))>>
                 ELSE <<Field("url", fm.url, <<UrlValue(md.url)>>)>>
            ELSE <<>>
        publicationField ==
            IF md.publication # <<>> /\ fm.publication # ""
            THEN IF fm.publicationType = "reference" /\ fm.publicationTag # ""
                 THEN <<Field("publication", fm.publication,
                              createPublicationField(cache, md.publication,
                                                     fm.publicationTag))>>
                 ELSE <<Field("publication", fm.publication,
                              createField(md.publication, "plain"))>>
            ELSE <<>>
        dateValue ==
            IF md.publishedDate # NoValue
            THEN formatDateForTana(md.publishedDate, off) ELSE NoValue
        dateFieldOf ==
            IF md.publishedDate # NoValue /\ fm.date # "" /\ dateValue # NoValue
            THEN <<Field("date", fm.date, createField(dateValue, "date"))>>
            ELSE <<>>
    IN  IF which = "TanaClipperPopup" \/ fm.present
        THEN authorField \o urlField \o publicationField \o dateFieldOf
        ELSE <<>>

\* What the fields of buildNode / buildTanaPayload append to pendingNodes.
NodePending(which, a, cache) ==
    LET fm == a.fieldMappings
        md == a.metadata
        mapped == which = "TanaClipperPopup" \/ fm.present
    IN  (IF mapped /\ md.author # <<>> /\ fm.author # ""
            /\ fm.authorType = "reference" /\ fm.authorTag # ""
         THEN authorPending(cache, md.author, fm.authorTag) ELSE <<>>)
        \o
        (IF mapped /\ md.publication # <<>> /\ fm.publication # ""
            /\ fm.publicationType = "reference" /\ fm.publicationTag # ""
         THEN publicationPending(cache, md.publication, fm.publicationTag)
         ELSE <<>>)

\* TanaClient.buildNode
buildNode(a, cache, off, maxLength) ==
    [name |-> NodeName(a.title, a.isSelection),
     tag |-> a.tagId,
     children |-> NodeFields("TanaClient", a, cache, off)
                      \o ContentNodes("TanaPasteBuilder", a.content, maxLength)]

\* TanaClipperPopup.buildTanaPayload: the node of the payload.  The popup has
\* no fieldMappings test: missing settings are the empty mapping.
buildTanaPayload(a, cache, off, maxLength) ==
    [name |-> NodeName(a.title, a.isSelection),
     tag |-> a.tagId,
     children |-> NodeFields("TanaClipperPopup", a, cache, off)
                      \o ContentNodes("TanaClipperPopup", a.content, maxLength)]

(***************************************************************************)
(* The inputs the formatters are run on.                                   *)
(***************************************************************************)
TitleSamples == {<<>>, <<"t">>, <<"t", "\n">>}

AuthorSamples ==
    {<<>>, <<"x">>, <<"x", "&", "y">>, <<"x", "\n", "a", "n", "d", " ", "y">>, <<",">>}

UrlSamples == {<<>>, <<"u">>, <<"u", "\n">>}

PublicationSamples == {<<>>, <<"p">>, <<"\n">>}

DateSamples == {NoValue, NotADate, LongDate(MaxDay)}

ContentSamples ==
    {<<>>, << <<"a", "a">> >>, << <<"a", " ", "a", "\n">>, <<"\n">>, <<"b">> >>}

NoMappings ==
    [present |-> FALSE, author |-> "", authorType |-> "text", authorTag |-> "",
     url |-> "", date |-> "", publication |-> "",
     publicationType |-> "text", publicationTag |-> ""]

AllMapped(authorType, authorTag, publicationType, publicationTag) ==
    [present |-> TRUE, author |-> "Author", authorType |-> authorType,
     authorTag |-> authorTag, url |-> "URL", date |-> "Date",
     publication |-> "Publication", publicationType |-> publicationType,
     publicationTag |-> publicationTag]

FieldMappingSamples ==
    {NoMappings,
     [NoMappings EXCEPT !.present = TRUE],
     AllMapped("text", "", "text", ""),
     AllMapped("text", "person", "reference", "source"),
     AllMapped("reference", "person", "text", "source"),
     AllMapped("reference", "", "reference", "")}

\* NodeCache.cache after load(): empty, or holding the author "x".
NodeCacheSamples == {<<>>, <<"person", <<"x">>>> :> "node1"}

\* The time zones the formatters are run in (a subset of TzOffsets).
ClipOffsets == {0, 60}

ClipInputs ==
    [title : TitleSamples,
     content : ContentSamples,
     metadata : [author : AuthorSamples, url : UrlSamples,
                 publishedDate : DateSamples, publication : PublicationSamples],
     tagId : {"", "tag1"},
     fieldMappings : FieldMappingSamples,
     isSelection : BOOLEAN]

\* TanaLocalClient.clip calls TanaPasteBuilder.buildClip.
BuildClip ==
    /\ clipPc = "idle"
    /\ \E a \in ClipInputs, off \in ClipOffsets :
          /\ clipArgs' = a
          /\ tzOffset' = off
          /\ payload' = buildClip(a, off, ClipLimit)
    /\ formatter' = "TanaPasteBuilder"
    /\ clipPc' = "done"
    /\ UNCHANGED <<extensionVars, nodeCache, pendingNodes, pageDate, publishedDate, dateField, datePc,
                   chunkerVars, authorVars>>

\* TanaClient.clip calls buildNode with the loaded node cache.
BuildNode ==
    /\ clipPc = "idle"
    /\ \E a \in ClipInputs, cache \in NodeCacheSamples, off \in ClipOffsets :
          /\ clipArgs' = a
          /\ nodeCache' = cache
          /\ tzOffset' = off
          /\ payload' = buildNode(a, cache, off, ClipLimit)
          /\ pendingNodes' = NodePending("TanaClient", a, cache)
    /\ formatter' = "TanaClient"
    /\ clipPc' = "done"
    /\ UNCHANGED <<extensionVars, pageDate, publishedDate, dateField, datePc, chunkerVars, authorVars>>

\* TanaClipperPopup.clipToTana calls buildTanaPayload.
BuildTanaPayload ==
    /\ clipPc = "idle"
    /\ \E a \in ClipInputs, cache \in NodeCacheSamples, off \in ClipOffsets :
          /\ clipArgs' = a
          /\ nodeCache' = cache
          /\ tzOffset' = off
          /\ payload' = buildTanaPayload(a, cache, off, ClipLimit)
          /\ pendingNodes' = NodePending("TanaClipperPopup", a, cache)
    /\ formatter' = "TanaClipperPopup"
    /\ clipPc' = "done"
    /\ UNCHANGED <<extensionVars, pageDate, publishedDate, dateField, datePc, chunkerVars, authorVars>>

NextClip == BuildClip \/ BuildNode \/ BuildTanaPayload

SpecClip == Init /\ [][NextClip]_vars

(***************************************************************************)
(* Properties of the formatters.                                           *)
(***************************************************************************)
\* The payload the formatter `which` builds.
Format(which, a, cache, off) ==
    IF which = "TanaPasteBuilder" THEN buildClip(a, off, ClipLimit)
    ELSE IF which = "TanaClient" THEN buildNode(a, cache, off, ClipLimit)
    ELSE buildTanaPayload(a, cache, off, ClipLimit)

FieldsOf(p, field) ==
    SelectSeq(p.children, LAMBDA c : c.kind = "field" /\ c.field = field)

Range(seq) == {seq[i] : i \in 1..Len(seq)}

\* The text values of a value of a field.
ValueTexts(v) ==
    (IF "name" \in DOMAIN v THEN {v.name} ELSE {})
        \cup (IF "url" \in DOMAIN v THEN {v.url} ELSE {})

\* Every text value of a payload: the root name, the text of every field
\* value, every content line.
PayloadTexts(p) ==
    {p.name}
        \cup UNION {IF c.kind = "content" THEN {c.name}
                    ELSE UNION {ValueTexts(v) : v \in Range(c.values)} :
                    c \in Range(p.children)}

IsCleanText(t) ==
    /\ \A i \in 1..Len(t) : ~IsNewline(t[i])
    /\ trim(t) = t

\* C6: every text value in the payload (root name, author and publication
\* values, URL link label and URL, content lines) contains no carriage return
\* or line feed and has no leading or trailing whitespace.
C6_TextValuesAreClean ==
    clipPc = "done" => \A t \in PayloadTexts(payload) : IsCleanText(t)

\* C8: when metadata.publishedDate is present but unparsable, the payload has
\* no date field and is exactly the payload built with the date absent.
C8_UnparsableDateIsOmitted ==
    (clipPc = "done" /\ clipArgs.metadata.publishedDate = NotADate) =>
        /\ FieldsOf(payload, "date") = <<>>
        /\ payload = Format(formatter,
                            [clipArgs EXCEPT !.metadata.publishedDate = NoValue],
                            nodeCache, tzOffset)

\* An unparsable date went through a formatter whose date field is mapped,
\* and the other three fields were emitted.
C8_Witness ==
    /\ clipPc = "done"
    /\ formatter = "TanaPasteBuilder"
    /\ clipArgs.metadata.publishedDate = NotADate
    /\ clipArgs.fieldMappings.present
    /\ clipArgs.fieldMappings.date # ""
    /\ FieldsOf(payload, "author") # <<>>
    /\ FieldsOf(payload, "url") # <<>>
    /\ FieldsOf(payload, "publication") # <<>>
    /\ FieldsOf(payload, "date") = <<>>

LogicalFields == {"author", "url", "date", "publication"}

\* The logical field has a configured mapping.
HasMapping(f) ==
    /\ formatter = "TanaClipperPopup" \/ clipArgs.fieldMappings.present
    /\ clipArgs.fieldMappings[f] # ""

\* The logical field has a metadata value (for the date: a parsable one).
HasValue(f) ==
    IF f = "date"
    THEN /\ clipArgs.metadata.publishedDate # NoValue
         /\ ~IsInvalidDate(clipArgs.metadata.publishedDate)
    ELSE clipArgs.metadata[f] # <<>>

\* The content lines one paragraph gives: none when it sanitizes to nothing,
\* its chunks when it is over-length, else the sanitized paragraph.
ParagraphLines(paragraph) ==
    LET text == sanitizeForTanaPaste(paragraph)
    IN  IF text = <<>> THEN <<>>
        ELSE IF Len(text) > ClipLimit
             THEN ChunksFrom(IF formatter = "TanaClipperPopup"
                             THEN "TanaClipperPopup" ELSE "TanaPasteBuilder",
                             text, ClipLimit)
             ELSE <<text>>

FieldEntries(p) == SelectSeq(p.children, LAMBDA c : c.kind = "field")

ContentEntries(p) == SelectSeq(p.children, LAMBDA c : c.kind = "content")

\* C11: the payload is the root (with the tag when one is configured), then one
\* field entry for exactly the logical fields that have a mapping and a
\* (parsable) metadata value, then one content entry per non-empty paragraph or
\* chunk of an over-length paragraph, in paragraph order, and nothing else.
C11_PayloadStructure ==
    clipPc = "done" =>
        /\ DOMAIN payload = {"name", "tag", "children"}
        /\ payload.name = NodeName(clipArgs.title, clipArgs.isSelection)
        /\ payload.tag = clipArgs.tagId
        /\ payload.children = FieldEntries(payload) \o ContentEntries(payload)
        /\ \A f \in LogicalFields :
              Len(FieldsOf(payload, f)) = IF HasMapping(f) /\ HasValue(f) THEN 1 ELSE 0
        /\ \A i \in 1..Len(FieldEntries(payload)) :
              FieldEntries(payload)[i].field \in LogicalFields
        /\ [i \in 1..Len(ContentEntries(payload)) |-> ContentEntries(payload)[i].name]
               = Concat([i \in 1..Len(clipArgs.content) |->
                            ParagraphLines(clipArgs.content[i])])

\* A tagged clip with the four fields came out of TanaPasteBuilder, one
\* paragraph was chunked and one, sanitizing to nothing, was dropped.
C11_Witness ==
    /\ clipPc = "done"
    /\ formatter = "TanaPasteBuilder"
    /\ payload.tag # ""
    /\ Len(FieldEntries(payload)) = 4
    /\ Len(clipArgs.content) = 3
    /\ \E i \in 1..3 : sanitizeForTanaPaste(clipArgs.content[i]) = <<>>
    /\ Len(ContentEntries(payload)) >= 2

\* The author field was emitted.
AuthorEmitted ==
    /\ clipPc = "done"
    /\ FieldsOf(payload, "author") # <<>>

AuthorValues == FieldsOf(payload, "author")[1].values

ReferenceMode ==
    /\ clipArgs.fieldMappings.authorType = "reference"
    /\ clipArgs.fieldMappings.authorTag # ""

IsTagged(v) == v.dataType \in {"tagged", "reference"}

SanitizedAuthor == sanitizeForTanaPaste(clipArgs.metadata.author)

ParsedNames ==
    LET names == parseAuthors(clipArgs.metadata.author)
    IN  [i \in 1..Len(names) |-> sanitizeForTanaPaste(names[i])]

Truthy(v) == v # <<>>

\* The first strategy, in order, whose value is truthy.
FirstTruthy(values) ==
    LET hits == {i \in 1..Len(values) : Truthy(values[i])}
    IN  IF hits = {} THEN [value |-> <<>>, source |-> 0, absent |-> TRUE]
        ELSE LET first == CHOOSE i \in hits : \A j \in hits : i <= j
             IN  [value |-> values[first], source |-> first, absent |-> FALSE]

\* The sources of extractTitle, in order: og:title, twitter:title, the first
\* h1, document.title.
TitleSources(h) == <<h.ogTitle, h.twitterTitle, trim(h.h1), h.docTitle>>

\* content.js extractTitle
extractTitle(h) ==
    LET found == FirstTruthy(TitleSources(h))
    IN  IF found.source # 0
        THEN [found EXCEPT !.value = trim(found.value)]
        ELSE [value |-> OrElse(h.docTitle, Untitled), source |-> 0, absent |-> FALSE]

NoAuthor == [kind |-> "none"]

\* One entry of a JSON-LD author array: typeof a === 'string' ? a : a?.name
JsonLdName(a) == IF a.kind = "string" THEN a.value ELSE a.name

\* The JSON-LD strategy of extractAuthor: the author property is a string, an
\* object with a name (name = "" when it has none), or an array of either.
JsonLdAuthor(a) ==
    IF a.kind = "none" THEN <<>>
    ELSE IF a.kind = "string"
    THEN IF a.value # <<>> /\ ~isUrl(a.value) THEN a.value ELSE <<>>
    ELSE IF a.kind = "object"
    THEN IF a.name # <<>> THEN a.name ELSE <<>>
    ELSE LET names == SelectSeq([i \in 1..Len(a.items) |-> JsonLdName(a.items[i])],
                                LAMBDA n : n # <<>> /\ ~isUrl(n))
         IN  IF Len(names) > 0 THEN Join(names, <<",", " ">>) ELSE <<>>

\* value && !isUrl(value) ? value : null
NonUrl(value) == IF value # <<>> /\ ~isUrl(value) THEN value ELSE <<>>

\* The article:author strategy.
ArticleAuthor(value) ==
    IF value = <<>> THEN <<>>
    ELSE IF ~isUrl(value) THEN value
    ELSE extractAuthorFromUrl(value)

\* text.replace(/^by\s+/i, '')
StripBy(text) ==
    IF MatchAt(toLowerCase(text), <<"b", "y">>, 0) /\ SkipSpace(text, 3) > 3
    THEN SubSeq(text, SkipSpace(text, 3), Len(text))
    ELSE text

\* The sources of extractAuthor, in order.
AuthorSources(h) ==
    <<JsonLdAuthor(h.jsonLdAuthor),
      NonUrl(h.metaAuthor),
      ArticleAuthor(h.articleAuthor),
      NonUrl(h.twitterCreator),
      trim(h.relAuthor),
      trim(h.authorName),
      StripBy(trim(h.byline)),
      trim(h.itempropAuthor)>>

\* content.js extractAuthor
extractAuthor(h) ==
    LET found == FirstTruthy(AuthorSources(h))
    IN  IF found.source # 0
        THEN [found EXCEPT !.value = cleanText(found.value)]
        ELSE found

(***************************************************************************)
(* The pages the extractors are run on.                                    *)
(***************************************************************************)
SiteUrl == HttpsScheme \o <<"/", "/", "s">>

ByUrl == SiteUrl \o <<"/", "b", "y", "/", "j", "-", "d">>

PlainUrl == SiteUrl \o <<"/", "j">>

TitleHeads ==
    [ogTitle : {<<>>, <<" ">>, <<"o">>},
     twitterTitle : {<<>>, <<" ">>, <<"w">>},
     h1 : {<<>>, <<" ">>, <<" ", "h", " ">>},
     docTitle : {<<>>, <<"d">>}]

JsonLdItems ==
    {[kind |-> "string", value |-> <<"k">>],
     [kind |-> "string", value |-> ByUrl],
     [kind |-> "object", name |-> <<"l">>],
     [kind |-> "object", name |-> ByUrl],
     [kind |-> "object", name |-> <<>>]}

JsonLdAuthors ==
    {NoAuthor} \cup JsonLdItems
        \cup {[kind |-> "array", items |-> items] :
                 items \in UNION {[1..k -> JsonLdItems] : k \in 0..MaxAuthorItems}}

AuthorHeads ==
    [jsonLdAuthor : JsonLdAuthors,
     metaAuthor : {<<>>, <<" ">>, <<"m">>, ByUrl},
     articleAuthor : {<<>>, <<"r">>, ByUrl, PlainUrl},
     twitterCreator : {<<>>, <<"@", "c">>},
     relAuthor : {<<>>, <<" ">>},
     authorName : {<<>>, <<"e">>},
     byline : {<<>>, <<"B", "y", " ", " ", "b">>, <<"b", "y", " ">>},
     itempropAuthor : {<<>>, <<"i", "\n", " ", "p">>}]

\* The path segments of the article:author URLs tried.
PathSegments ==
    AuthorMarkers \cup {<<>>, <<"j", "-", "D", "o">>, <<"-">>, <<"B", "y">>}

NoAuthorHead ==
    [jsonLdAuthor |-> NoAuthor, metaAuthor |-> <<>>, articleAuthor |-> <<>>,
     twitterCreator |-> <<>>, relAuthor |-> <<>>, authorName |-> <<>>,
     byline |-> <<>>, itempropAuthor |-> <<>>]

\* extractTitle runs on a page.
ExtractTitle ==
    /\ metaPc = "idle"
    /\ \E h \in TitleHeads :
          /\ head' = h
          /\ metadata' = [field |-> "title"] @@ extractTitle(h)
    /\ metaPc' = "done"
    /\ UNCHANGED <<chunkerVars, authorVars, dateVars, clipVars, mcpVars, pageVars, reclipVars, laterVars>>

\* extractAuthor runs on a page.
ExtractAuthor ==
    /\ metaPc = "idle"
    /\ \E h \in AuthorHeads :
          /\ head' = h
          /\ metadata' = [field |-> "author"] @@ extractAuthor(h)
    /\ metaPc' = "done"
    /\ UNCHANGED <<chunkerVars, authorVars, dateVars, clipVars, mcpVars, pageVars, reclipVars, laterVars>>

\* extractAuthor runs on a page whose only author source is an article:author
\* meta tag holding a URL.
ExtractAuthorFromArticleMeta ==
    /\ metaPc = "idle"
    /\ \E k \in 0..MaxSegments :
          \E segs \in [1..k -> PathSegments],
             rest \in {<<>>, <<"?", "/", "b", "y", "/", "q">>} :
             LET path == Concat([i \in 1..k |-> <<"/">> \o segs[i]])
                 h == [NoAuthorHead EXCEPT !.articleAuthor = SiteUrl \o path \o rest]
             IN  /\ head' = h
                 /\ metadata' = [field |-> "author"] @@ extractAuthor(h)
    /\ metaPc' = "done"
    /\ UNCHANGED <<chunkerVars, authorVars, dateVars, clipVars, mcpVars, pageVars, reclipVars, laterVars>>

NextMetadata == ExtractTitle \/ ExtractAuthor \/ ExtractAuthorFromArticleMeta

SpecMetadata == Init /\ [][NextMetadata]_vars

(***************************************************************************)
(* Properties of the metadata extractors.                                  *)
(***************************************************************************)
\* A value that is neither empty nor whitespace only.
NonBlank(v) == trim(v) # <<>>

\* What each strategy of the field that was resolved yields, in order.
StrategyValues ==
    IF metadata.field = "title" THEN TitleSources(head) ELSE AuthorSources(head)

\* C12: the resolver returns the result of the first strategy, in the field's
\* fixed order, that yields a non-empty value; a strategy yielding an empty or
\* whitespace-only value is skipped; when all fail the field is absent; a
\* resolved field is never an empty or whitespace-only string.
C12_FirstNonEmptyWins ==
    metaPc = "done" =>
        LET good == {i \in 1..Len(StrategyValues) : NonBlank(StrategyValues[i])}
        IN  IF good = {}
            THEN metadata.absent
            ELSE /\ ~metadata.absent
                 /\ metadata.source = CHOOSE i \in good : \A j \in good : i <= j
                 /\ NonBlank(metadata.value)

\* C13: an author taken from JSON-LD (the first strategy) is never an http(s)
\* URL, whether the author property is a string, an object with a name or an
\* array of either.
C13_JsonLdAuthorIsNoUrl ==
    (metaPc = "done" /\ metadata.field = "author" /\ metadata.source = 1) =>
        /\ ~metadata.absent
        /\ ~isUrl(metadata.value)

\* The only author source of the page is an article:author meta tag holding
\* an http(s) URL.
OnlyArticleAuthorUrl ==
    /\ metaPc = "done"
    /\ metadata.field = "author"
    /\ [head EXCEPT !.articleAuthor = <<>>] = NoAuthorHead
    /\ isUrl(head.articleAuthor)

\* Hyphens replaced by spaces, every word capitalized.
SlugToName(slug) ==
    LET spaced == [i \in 1..Len(slug) |-> IF slug[i] = "-" THEN " " ELSE slug[i]]
    IN  [i \in 1..Len(spaced) |->
            IF i = 1 \/ spaced[i - 1] = " "
            THEN CharToUpperCase(spaced[i]) ELSE CharToLowerCase(spaced[i])]

\* C14: when the only author source is an article:author meta tag holding an
\* http(s) URL, the author is the path segment after the first "by", "author"
\* or "authors" segment, hyphens replaced by spaces and every word
\* capitalized (and cleaned of surplus whitespace, as every author is); when
\* the path has no marker segment followed by a segment, the author is absent.
C14_AuthorFromUrlPath ==
    OnlyArticleAuthorUrl =>
        LET segments == NonEmptyOnly(SplitAt(pathname(ParseUrl(head.articleAuthor)), "/"))
            markers == {i \in 1..Len(segments) : segments[i] \in AuthorMarkers}
            first == CHOOSE i \in markers : \A j \in markers : i <= j
        IN  IF markers = {} \/ first = Len(segments)
            THEN metadata.absent
            ELSE /\ ~metadata.absent
                 /\ metadata.value = cleanText(SlugToName(segments[first + 1]))

\* The author of a page whose article:author is https://s/by/j-Do resolved
\* to "J Do".
C14_Witness ==
    /\ OnlyArticleAuthorUrl
    /\ head.articleAuthor = SiteUrl \o <<"/", "b", "y", "/", "j", "-", "D", "o">>
    /\ metadata.source = 3
    /\ metadata.value = <<"J", " ", "D", "o">>

(***************************************************************************)
(* McpClient.sendRequest.  One action per await; the server answers each   *)
(* fetch as it likes.  A response is "ok", an HTTP status that is not ok   *)
(* (401, 500), "rpc" (a JSON-RPC error in an ok response) or "network"     *)
(* (fetch rejects); only the HTTP ones give the thrown error a status.     *)
(***************************************************************************)
Responses == {"ok", "401", "500", "rpc", "network"}

SessionIds == {"sid1", "sid2"}

\* What the catch block of sendRequest does with an error of every request,
\* retried or not: re-initialize on every 401.
AfterFailure_RetriesAgain(step, response) ==
    IF response = "401" THEN "reinitialize" ELSE "done"

\* Where sendRequest goes after rawRequest(method) threw: the first request
\* is inside the try block, whose catch re-initializes on a 401; the retried
\* request is inside the catch block, and what it throws leaves sendRequest.
AfterFailure(step, response) ==
    IF step = "request" /\ response = "401" THEN "reinitialize" ELSE "done"

\* rawRequest(method, params): this.requestId++, and the request is logged
\* with the session id it carried and the response it got.
Logged(method, response) ==
    requestLog \o <<[method |-> method, session |-> sessionId, response |-> response]>>

\* sendRequest(method, params) is called.
SendRequestCall ==
    /\ mcpPc = "idle"
    /\ calls < MaxCalls
    /\ calls' = calls + 1
    /\ requestLog' = <<>>
    /\ outcome' = "pending"
    /\ mcpPc' = IF sessionId = "" THEN "restore" ELSE "request"
    /\ UNCHANGED <<sessionId, storedSession, requestId>>

\* restoreSession: the stored session id is read and validated with a ping.
RestoreSession ==
    /\ mcpPc = "restore"
    /\ IF storedSession # ""
       THEN \E response \in Responses :
               /\ sessionId' = storedSession
               /\ requestId' = requestId + 1
               /\ requestLog' = requestLog \o
                      <<[method |-> "ping", session |-> storedSession,
                         response |-> response]>>
               /\ mcpPc' = IF response = "ok" THEN "request" ELSE "initialize"
       ELSE /\ mcpPc' = "initialize"
            /\ UNCHANGED <<sessionId, requestId, requestLog>>
    /\ UNCHANGED <<storedSession, outcome, calls>>

\* initialize(): the initialize request, the session id of its response
\* header (sid = "" when the header is missing), the initialized
\* notification.  An error of either fetch leaves sendRequest.
InitializeWith(response, sid, notified) ==
    /\ mcpPc \in {"initialize", "reinitialize"}
    /\ requestId' = requestId + 1
    /\ requestLog' = Logged("initialize", response)
    /\ IF response = "ok" /\ sid # ""
       THEN sessionId' = sid /\ storedSession' = sid
       ELSE UNCHANGED <<sessionId, storedSession>>
    /\ IF response = "ok" /\ notified
       THEN /\ mcpPc' = IF mcpPc = "initialize" THEN "request" ELSE "retry"
            /\ UNCHANGED outcome
       ELSE /\ mcpPc' = "done"
            /\ outcome' = "thrown"
    /\ UNCHANGED calls

\* initialize(), whatever the server answers.
Initialize ==
    \E response \in Responses, sid \in SessionIds \cup {""}, notified \in BOOLEAN :
        InitializeWith(response, sid, notified)

\* rawRequest(method, params), first or retried.
MethodRequest ==
    /\ mcpPc \in {"request", "retry"}
    /\ requestId' = requestId + 1
    /\ \E response \in Responses :
          /\ requestLog' = Logged("method", response)
          /\ IF response = "ok"
             THEN mcpPc' = "done" /\ outcome' = "returned"
             ELSE /\ mcpPc' = AfterFailure(mcpPc, response)
                  /\ outcome' = IF AfterFailure(mcpPc, response) = "done"
                                THEN "thrown" ELSE outcome
    /\ UNCHANGED <<sessionId, storedSession, calls>>

\* sendRequest has returned or thrown; the client is ready for the next call.
SendRequestExit ==
    /\ mcpPc = "done"
    /\ mcpPc' = "idle"
    /\ UNCHANGED <<sessionId, storedSession, requestId, requestLog, outcome, calls>>

\* The service worker is restarted: the McpClient is constructed anew, the
\* stored session stays.
Restart ==
    /\ mcpPc = "idle"
    /\ sessionId # ""
    /\ sessionId' = ""
    /\ requestId' = 0
    /\ UNCHANGED <<storedSession, requestLog, outcome, calls, mcpPc>>

NextMcp ==
    /\ SendRequestCall \/ RestoreSession \/ Initialize \/ MethodRequest
           \/ SendRequestExit \/ Restart
    /\ UNCHANGED <<chunkerVars, authorVars, dateVars, clipVars, metaVars, pageVars,
                   reclipVars, laterVars>>

SpecMcp == Init /\ [][NextMcp]_vars

\* The method requests of the current sendRequest, in order.
MethodRequests == SelectSeq(requestLog, LAMBDA r : r.method = "method")

\* The position in requestLog of the n-th method request.
PositionOf(n) ==
    CHOOSE i \in 1..Len(requestLog) :
        /\ requestLog[i].method = "method"
        /\ Cardinality({j \in 1..i : requestLog[j].method = "method"}) = n

\* C19: one sendRequest issues the method request at most twice; the second
\* one only after the first got a 401 and the session was re-initialized
\* with success in between; every other error of the first request, a failed
\* re-initialization and every error of the retried request end the call
\* with the error thrown.
C19_RetriesOnceOn401 ==
    /\ Len(MethodRequests) <= 2
    /\ Len(MethodRequests) = 2 =>
          /\ MethodRequests[1].response = "401"
          /\ \E i \in (PositionOf(1) + 1)..(PositionOf(2) - 1) :
                requestLog[i] = [method |-> "initialize",
                                 session |-> requestLog[i].session,
                                 response |-> "ok"]
    /\ mcpPc = "done" =>
          /\ outcome \in {"returned", "thrown"}
          /\ outcome = "returned" <=>
                 /\ MethodRequests # <<>>
                 /\ MethodRequests[Len(MethodRequests)].response = "ok"
          /\ (MethodRequests # <<>> /\ MethodRequests[1].response \notin {"ok", "401"}) =>
                 Len(MethodRequests) = 1 /\ outcome = "thrown"
          /\ (requestLog # <<>> /\ requestLog[Len(requestLog)].method = "initialize") =>
                 outcome = "thrown"

\* A 401 was answered by a re-initialization and one retry, which failed
\* with another 401 and was thrown.
C19_Witness ==
    /\ mcpPc = "done"
    /\ outcome = "thrown"
    /\ Len(MethodRequests) = 2
    /\ MethodRequests[1].response = "401"
    /\ MethodRequests[2].response = "401"
    /\ MethodRequests[1].session # MethodRequests[2].session

(***************************************************************************)
(* content.js: the page.  The document is the sequence of its elements in  *)
(* document order below <body>; an element is [tag, cls, id, role, parent, *)
(* text], parent being the position of its parent (0 is <body>) and text   *)
(* its leading text node.  A tree is a store, the set of the elements that *)
(* were removed from it; store 1 is the live document, cloneNode and        *)
(* cloneContents make a new store.  A handle [store, root, container] is   *)
(* an element of a tree (root = 0 is <body>); container is TRUE when the   *)
(* root stands for the fresh <div> that holds the cloned selection.        *)
(***************************************************************************)
Element(tag, cls, id, role, parent, text) ==
    [tag |-> tag, cls |-> cls, id |-> id, role |-> role, parent |-> parent,
     text |-> text]

\* The ancestors of element n, nearest first, up to <body> (excluded).
RECURSIVE Ancestors(_, _)
Ancestors(doc, n) ==
    IF doc[n].parent = 0 THEN <<>>
    ELSE <<doc[n].parent>> \o Ancestors(doc, doc[n].parent)

\* n is a descendant of root (every element is one of <body>).
IsDescendant(doc, n, root) ==
    root = 0 \/ root \in Range(Ancestors(doc, n))

\* The elements of the tree below the handle, in document order.
ElementsOf(doc, stores, h) ==
    SelectSeq([n \in 1..Len(doc) |-> n],
              LAMBDA n : IsDescendant(doc, n, h.root) /\ n \notin stores[h.store])

\* A cloneNode that hands back the tree it was asked to copy.
CloneStore_Shared(stores, h) == h.store

\* The store that element.cloneNode(true) and range.cloneContents() fill:
\* a new one.
CloneStore(stores, h) == Len(stores) + 1

\* The stores after element.cloneNode(true).
cloneNode(stores, h) ==
    IF CloneStore(stores, h) > Len(stores)
    THEN Append(stores, stores[h.store])
    ELSE stores

\* The stores after el.remove() for every element of `gone`: they leave the
\* tree with their descendants.
RemoveAll(doc, stores, store, gone) ==
    [stores EXCEPT ![store] =
        @ \cup gone \cup {n \in 1..Len(doc) : \E g \in gone : IsDescendant(doc, n, g)}]

\* A compound selector of the kinds the content script uses.
Tag(name) == [kind |-> "tag", name |-> name]

Class(name) == [kind |-> "class", name |-> name]

Id(name) == [kind |-> "id", name |-> name]

Role(name) == [kind |-> "role", name |-> name]

\* [class*="..."] and [id*="..."]: the names holding the fragment.
ClassContains(names) == [kind |-> "class*", names |-> names]

IdContains(names) == [kind |-> "id*", names |-> names]

Matches(el, sel) ==
    IF sel.kind = "tag" THEN el.tag = sel.name
    ELSE IF sel.kind = "class" THEN el.cls = sel.name
    ELSE IF sel.kind = "id" THEN el.id = sel.name
    ELSE IF sel.kind = "role" THEN el.role = sel.name
    ELSE IF sel.kind = "class*" THEN el.cls \in sel.names
    ELSE el.id \in sel.names

\* element.querySelectorAll(selectors): the matching descendants, in
\* document order.
querySelectorAll(doc, stores, h, selectors) ==
    SelectSeq(ElementsOf(doc, stores, h),
              LAMBDA n : \E sel \in selectors : Matches(doc[n], sel))

\* element.querySelector(selector): the first match, or 0.
querySelector(doc, stores, h, selectors) ==
    LET found == querySelectorAll(doc, stores, h, selectors)
    IN  IF found = <<>> THEN 0 ELSE found[1]

\* el.closest(selectors) finds something: el or one of its ancestors inside
\* the tree of the handle matches.
HasClosest(doc, h, n, selectors) ==
    \E a \in {n} \cup Range(Ancestors(doc, n)) :
        /\ IsDescendant(doc, a, h.root) \/ (a = h.root /\ ~h.container)
        /\ \E sel \in selectors : Matches(doc[a], sel)

\* element.textContent: the text of the element and of its descendants in
\* the tree, in document order.
textContent(doc, stores, h) ==
    (IF h.root = 0 \/ h.container THEN <<>> ELSE doc[h.root].text)
        \o Concat([i \in 1..Len(ElementsOf(doc, stores, h)) |->
                      doc[ElementsOf(doc, stores, h)[i]].text])

\* The handle of element n in the tree of handle h.
Within(h, n) == [store |-> h.store, root |-> n, container |-> FALSE]

LiveDocument == [store |-> 1, root |-> 0, container |-> FALSE]

\* The class and id names of the pages tried that hold one of the fragments
\* of the [class*=...] and [id*=...] selectors of REMOVE_SELECTORS (ad-, ad_,
\* -ad, _ad, advert, sponsor, promo, newsletter, subscribe).
FragmentNames == {"ad-box", "promo-top"}

\* content.js REMOVE_SELECTORS.  The attribute selectors ([data-ad],
\* [data-testid*="ad"], [aria-label*="advertisement"], ...) match no element
\* of the pages tried, which carry no such attribute.
REMOVE_SELECTORS ==
    {Tag(t) : t \in {"nav", "header", "footer", "aside",
                     "script", "style", "noscript", "iframe"}}
    \cup {Class(c) : c \in
            {"nav", "navigation", "menu", "sidebar",
             "comments", "related", "social", "share",
             "ad", "ads", "advert", "advertisement", "advertising",
             "dfp", "google-ad", "googletag", "gpt-ad",
             "promoted", "promotional", "sponsored", "sponsor-content",
             "native-ad", "paid-content", "partner-content",
             "story-ad", "ad-wrapper", "ad-container", "ad-slot",
             "newsletter", "subscribe", "subscription",
             "paywall", "registration-wall",
             "share-tools", "social-tools", "sharing",
             "modal", "popup", "overlay",
             "recommended", "more-stories", "related-articles",
             "trending", "popular", "also-read"}}
    \cup {ClassContains(FragmentNames), IdContains(FragmentNames)}

\* The stores after removeUnwantedElements(element).
removeUnwantedElements(doc, stores, h) ==
    RemoveAll(doc, stores, h.store,
              Range(querySelectorAll(doc, stores, h, REMOVE_SELECTORS)))

\* s.replace(/c{atLeast,}/g, by) from the 1-based index i on.
RECURSIVE ReplaceRunsOf(_, _, _, _, _)
ReplaceRunsOf(s, c, atLeast, by, i) ==
    IF i > Len(s) THEN <<>>
    ELSE IF s[i] # c THEN <<s[i]>> \o ReplaceRunsOf(s, c, atLeast, by, i + 1)
    ELSE LET end == CHOOSE j \in i..Len(s) :
                        /\ \A k \in i..j : s[k] = c
                        /\ j = Len(s) \/ s[j + 1] # c
         IN  (IF end - i + 1 >= atLeast THEN by ELSE SubSeq(s, i, end))
                 \o ReplaceRunsOf(s, c, atLeast, by, end + 1)

\* fullText.split(/\n\n+/)
RECURSIVE SplitParagraphs(_)
SplitParagraphs(s) ==
    LET starts == {i \in 1..(Len(s) - 1) : s[i] = "\n" /\ s[i + 1] = "\n"}
    IN  IF starts = {} THEN <<s>>
        ELSE LET i == CHOOSE i \in starts : \A j \in starts : i <= j
                 end == CHOOSE j \in (i + 1)..Len(s) :
                            /\ \A k \in i..j : s[k] = "\n"
                            /\ j = Len(s) \/ s[j + 1] # "\n"
             IN  <<SubSeq(s, 1, i - 1)>> \o SplitParagraphs(SubSeq(s, end + 1, Len(s)))

blockElements ==
    {"p", "div", "br", "h1", "h2", "h3", "h4", "h5", "h6",
     "li", "tr", "blockquote", "pre", "hr"}

\* The text cleanHtmlToText has gathered after the tree walker visited the
\* elements of `order` from position i on: a block element ends the text so
\* far with a paragraph break, a text node adds its trimmed text and a space.
RECURSIVE WalkText(_, _, _, _)
WalkText(doc, order, i, text) ==
    IF i > Len(order) THEN text
    ELSE LET el == doc[order[i]]
             broken == IF el.tag \in blockElements
                       THEN trim(text) \o <<"\n", "\n">> ELSE text
             added == IF trim(el.text) # <<>>
                      THEN broken \o trim(el.text) \o <<" ">> ELSE broken
         IN  WalkText(doc, order, i + 1, added)

\* content.js cleanHtmlToText: [stores, text].
cleanHtmlToText(doc, stores, h) ==
    LET clone == [h EXCEPT !.store = CloneStore(stores, h)]
        cloned == cloneNode(stores, h)
        stripped == RemoveAll(doc, cloned, clone.store,
                        Range(querySelectorAll(doc, cloned, clone,
                                  {Tag("script"), Tag("style"), Tag("noscript")})))
        own == IF h.root = 0 \/ h.container \/ trim(doc[h.root].text) = <<>>
               THEN <<>> ELSE trim(doc[h.root].text) \o <<" ">>
        text == WalkText(doc, ElementsOf(doc, stripped, clone), 1, own)
    IN  [stores |-> stripped,
         text |-> trim(ReplaceRunsOf(
                          ReplaceRunsOf(text, "\n", 3, <<"\n", "\n">>, 1),
                          " ", 1, <<" ">>, 1))]

paragraphSelectors ==
    {Tag(t) : t \in {"p", "h1", "h2", "h3", "h4", "h5", "h6", "li",
                     "blockquote", "pre"}}

\* text && text.length > 10, of the trimmed text of a paragraph element.
KeptParagraph(text) == text # <<>> /\ Len(text) > MinParagraphLength

\* What extractParagraphs returns when it found no paragraph, of the result
\* of cleanHtmlToText: if (fullText) return fullText.split(...).filter(...),
\* else the empty list of paragraphs.
FallbackParagraphs(full) ==
    [stores |-> full.stores,
     paragraphs |->
         IF full.text # <<>>
         THEN SelectSeq(SplitParagraphs(full.text),
                        LAMBDA p : Len(trim(p)) > MinParagraphLength)
         ELSE <<>>]

\* content.js extractParagraphs: [stores, paragraphs].
extractParagraphs(doc, stores, h) ==
    LET elements == SelectSeq(
            querySelectorAll(doc, stores, h, paragraphSelectors),
            LAMBDA n :
                /\ ~HasClosest(doc, h, n,
                       {Tag(t) : t \in {"script", "style", "noscript",
                                        "nav", "header", "footer"}})
                /\ KeptParagraph(trim(textContent(doc, stores, Within(h, n)))))
        paragraphs == [i \in 1..Len(elements) |->
                          cleanText(trim(textContent(doc, stores, Within(h, elements[i]))))]
    IN  IF Len(paragraphs) = 0
        THEN FallbackParagraphs(cleanHtmlToText(doc, stores, h))
        ELSE [stores |-> stores, paragraphs |-> paragraphs]

articleSelectors ==
    <<Tag("article"), Role("main"), Tag("main"), Class("post-content"),
      Class("article-content"), Class("entry-content"), Class("content"),
      Id("content")>>

\* The paragraphs extracted, with the element they were taken from.
TakenFrom(element, extracted) ==
    [stores |-> extracted.stores, paragraphs |-> extracted.paragraphs,
     region |-> element]

\* content.js getFullContent: [stores, paragraphs, region], region being the
\* element the content was taken from (0 is <body>).
getFullContent(doc, stores) ==
    LET hits == {i \in 1..Len(articleSelectors) :
                    querySelector(doc, stores, LiveDocument, {articleSelectors[i]}) # 0}
        element == IF hits = {} THEN 0
                   ELSE querySelector(doc, stores, LiveDocument,
                            {articleSelectors[CHOOSE i \in hits : \A j \in hits : i <= j]})
        live == Within(LiveDocument, element)
        clone == [live EXCEPT !.store = CloneStore(stores, live)]
        stripped == removeUnwantedElements(doc, cloneNode(stores, live), clone)
    IN  TakenFrom(element, extractParagraphs(doc, stripped, clone))

\* content.js hasSelection; the selection is the element whose contents the
\* user selected, 0 when nothing is selected.
hasSelection(doc, stores, selected) ==
    /\ selected # 0
    /\ trim(textContent(doc, stores, Within(LiveDocument, selected))) # <<>>

\* content.js getSelectedContent: [stores, paragraphs, region].
getSelectedContent(doc, stores, selected) ==
    IF selected = 0
    THEN [stores |-> stores, paragraphs |-> <<>>, region |-> selected]
    ELSE LET range == Within(LiveDocument, selected)
             container == [store |-> CloneStore(stores, range), root |-> selected,
                           container |-> TRUE]
         IN  TakenFrom(selected,
                       extractParagraphs(doc, cloneNode(stores, range), container))

(***************************************************************************)
(* The pages tried.                                                        *)
(***************************************************************************)
Repeat(c, n) == [i \in 1..n |-> c]

\* Just long enough a paragraph.
LongText(c) == Repeat(c, MinParagraphLength + 1)

\* As long, but mostly whitespace.
SpacedText == <<"c">> \o Repeat(" ", MinParagraphLength - 1) \o <<"d">>

\* One character too short.
ShortText == Repeat("e", MinParagraphLength)

RegionKinds == {"article", "role", "main", "content", "id", "none"}

RegionElement(kind) ==
    IF kind = "article" THEN Element("article", "", "", "", 0, <<>>)
    ELSE IF kind = "role" THEN Element("div", "", "", "main", 0, <<>>)
    ELSE IF kind = "main" THEN Element("main", "", "", "", 0, <<>>)
    ELSE IF kind = "content" THEN Element("div", "content", "", "", 0, <<>>)
    ELSE IF kind = "id" THEN Element("div", "", "content", "", 0, <<>>)
    ELSE Element("div", "", "", "", 0, <<>>)

\* <body> <nav><p/></nav> <region> <p/> <div class="ad-box"><p/></div> <li/>
\* <script/> </region> <p/> [<article><p/></article>] </body>
Page(kind, t4, t7, t9, second) ==
    <<Element("nav", "", "", "", 0, <<>>),
      Element("p", "", "", "", 1, LongText("n")),
      RegionElement(kind),
      Element("p", "", "", "", 3, t4),
      Element("div", "ad-box", "", "", 3, <<>>),
      Element("p", "", "", "", 5, LongText("x")),
      Element("li", "", "", "", 3, t7),
      Element("script", "", "", "", 3, LongText("s")),
      Element("p", "", "", "", 0, t9)>>
    \o (IF second
        THEN <<Element("article", "", "", "", 0, <<>>),
               Element("p", "", "", "", 10, LongText("z"))>>
        ELSE <<>>)

Pages ==
    {Page(kind, t4, t7, t9, second) :
        kind \in RegionKinds,
        t4 \in {<<>>, <<"h", "i">>, LongText("a"), SpacedText},
        t7 \in {<<>>, ShortText, LongText("b")},
        t9 \in {<<>>, LongText("o")},
        second \in BOOLEAN}

\* The element whose contents the user selected: nothing, the region, the
\* advertisement box inside it.
Selections == {0, 3, 5}

\* The tab leaves the page: its window, flag and listeners are gone.
UnloadPage ==
    /\ document # <<>>
    /\ document' = <<>>
    /\ selection' = 0
    /\ liveRemoved' = {}
    /\ injected' = FALSE
    /\ listeners' = 0
    /\ injections' = 0
    /\ request' = [action |-> "none"]
    /\ responses' = <<>>
    /\ region' = 0

\* The tab loads a page: a new document and a new window.
LoadPage ==
    /\ document = <<>>
    /\ \E doc \in Pages, selected \in Selections :
          /\ document' = doc
          /\ selection' = selected
    /\ liveRemoved' = {}
    /\ injected' = FALSE
    /\ listeners' = 0
    /\ injections' = 0
    /\ request' = [action |-> "none"]
    /\ responses' = <<>>
    /\ region' = 0

\* A guard that never finds the flag set.
AlreadyInjected_Never(flag) == FALSE

\* if (window.__tanaClipperInjected) return;
AlreadyInjected(flag) == flag

\* injectContentScript: chrome.scripting.executeScript runs content.js in the
\* page once more; the script registers its listener unless the flag is set.
InjectContentScript ==
    /\ document # <<>>
    /\ injections < MaxInjections
    /\ injections' = injections + 1
    /\ IF AlreadyInjected(injected)
       THEN UNCHANGED <<injected, listeners>>
       ELSE /\ injected' = TRUE
            /\ listeners' = listeners + 1
    /\ UNCHANGED <<document, selection, liveRemoved, request, responses, region>>

\* sendResponse({ content })
ContentResponse(got) ==
    [stores |-> got.stores, response |-> [content |-> got.paragraphs],
     region |-> got.region]

\* What one listener does with a message: [stores, response, region].
\* response is NoValue when the listener does not call sendResponse.
Handle(message, doc, stores, selected) ==
    IF message.action = "getMetadata"
    THEN [stores |-> stores,
          response |-> [hasSelection |-> hasSelection(doc, stores, selected)],
          region |-> 0]
    ELSE IF message.action = "getContent"
    THEN ContentResponse(IF message.selectionOnly /\ hasSelection(doc, stores, selected)
                         THEN getSelectedContent(doc, stores, selected)
                         ELSE getFullContent(doc, stores))
    ELSE IF message.action = "checkSelection"
    THEN [stores |-> stores,
          response |-> [hasSelection |-> hasSelection(doc, stores, selected)],
          region |-> 0]
    ELSE [stores |-> stores, response |-> NoValue, region |-> 0]

\* The stores and the responses sent once one more listener has handled
\* the message.
Listen(before, handled) ==
    [stores |-> handled.stores,
     responses |-> IF handled.response = NoValue THEN before.responses
                   ELSE Append(before.responses, handled.response),
     region |-> handled.region]

\* The registered listeners handle the message one after the other.
RECURSIVE Dispatch(_, _, _, _, _)
Dispatch(n, message, doc, stores, selected) ==
    IF n = 0 THEN [stores |-> stores, responses |-> <<>>, region |-> 0]
    ELSE CHOOSE after \in
             {Listen(before, Handle(message, doc, before.stores, selected)) :
                 before \in {Dispatch(n - 1, message, doc, stores, selected)}} : TRUE

Messages ==
    {[action |-> "getMetadata"], [action |-> "checkSelection"],
     [action |-> "getContent", selectionOnly |-> TRUE],
     [action |-> "getContent", selectionOnly |-> FALSE],
     [action |-> "ping"]}

\* chrome.tabs.sendMessage delivers a message to the page's listeners.
Deliver(message) ==
    /\ listeners > 0
    /\ \E done \in {Dispatch(listeners, message, document, <<liveRemoved>>, selection)} :
          /\ liveRemoved' = done.stores[1]
          /\ responses' = done.responses
          /\ region' = done.region
    /\ request' = message
    /\ UNCHANGED <<document, selection, injected, listeners, injections>>

GetMetadata == Deliver([action |-> "getMetadata"])

CheckSelection == Deliver([action |-> "checkSelection"])

GetContent == \E only \in BOOLEAN : Deliver([action |-> "getContent", selectionOnly |-> only])

OtherMessage == Deliver([action |-> "ping"])

NextPage ==
    /\ LoadPage \/ UnloadPage \/ InjectContentScript \/ GetMetadata \/ CheckSelection
           \/ GetContent \/ OtherMessage
    /\ UNCHANGED <<chunkerVars, authorVars, dateVars, clipVars, metaVars, mcpVars,
                   reclipVars, laterVars>>

SpecPage == Init /\ [][NextPage]_vars

(***************************************************************************)
(* Claims about the content script.                                        *)
(***************************************************************************)
\* The last message asked for the content of the whole page and was
\* answered.
FullContentAnswered ==
    /\ request.action = "getContent"
    /\ ~(request.selectionOnly /\ hasSelection(document, <<liveRemoved>>, selection))
    /\ responses # <<>>

\* The length of the text of element n once the clutter is removed from a
\* copy of it.
StrippedTextLength(n) ==
    LET live == Within(LiveDocument, n)
        copy == [live EXCEPT !.store = 2]
        stripped == removeUnwantedElements(document, <<liveRemoved, liveRemoved>>, copy)
    IN  Len(trim(textContent(document, stripped, copy)))

\* The first match of the i-th selector, 0 when it has none.
FirstMatch(i) ==
    querySelector(document, <<liveRemoved>>, LiveDocument, {articleSelectors[i]})

\* The selectors whose first match has more text than the threshold.
Qualifying ==
    {i \in 1..Len(articleSelectors) :
        FirstMatch(i) # 0 /\ StrippedTextLength(FirstMatch(i)) > CharThreshold}

\* The region the probing is said to choose: the first qualifying match in
\* selector order, <body> (0) when nothing qualifies.
QualifyingRegion ==
    IF Qualifying = {} THEN 0
    ELSE FirstMatch(CHOOSE i \in Qualifying : \A j \in Qualifying : i <= j)

\* C15: probing returns the first match, in selector order, whose text is
\* longer than the minimum character threshold; a match at or below the
\* threshold is skipped, and when nothing qualifies the content is taken
\* from the clutter-stripped whole body.
C15_ProbingSkipsShortRegions ==
    FullContentAnswered => region = QualifyingRegion

\* C16: every removal is applied to a detached clone, so that after any
\* sequence of getMetadata, getContent and checkSelection requests the live
\* document is the tree it was before them.
C16_LivePageUnchanged == liveRemoved = {}

\* Clutter of the region was removed for the content that was returned, and
\* a selection was extracted.
C16_Witness ==
    /\ request.action = "getContent"
    /\ Len(responses) = 1
    /\ \/ /\ ~request.selectionOnly
          /\ region = 3
          /\ responses[1].content # <<>>
          /\ LongText("x") \notin Range(responses[1].content)
          /\ LongText("s") \notin Range(responses[1].content)
       \/ /\ request.selectionOnly
          /\ selection = 3
          /\ LongText("x") \in Range(responses[1].content)

\* C17: every block the paragraph extractor returns is longer than the
\* minimum of 10 characters, measured on the block as returned (trimmed,
\* whitespace collapsed).
C17_BlocksExceedMinimum ==
    request.action = "getContent" =>
        \A r \in 1..Len(responses) :
            \A i \in 1..Len(responses[r].content) :
                Len(responses[r].content[i]) > MinParagraphLength

\* The messages the content script answers.
Answered == {"getMetadata", "getContent", "checkSelection"}

\* C20: however often the content script is injected into a page, the page
\* has exactly one message listener, and each getMetadata, getContent or
\* checkSelection message receives exactly one response.
C20_OneListenerOneResponse ==
    /\ injections > 0 => listeners = 1
    /\ request.action \in Answered => Len(responses) = 1

\* A message answered once by a page the script was injected into more than
\* once.
C20_Witness ==
    /\ injections > 1
    /\ listeners = 1
    /\ request.action \in Answered
    /\ Len(responses) = 1

(***************************************************************************)
(* Clips that follow one another: TanaLocalClient.clip, TanaClient.clip    *)
(* and TanaClipperPopup.clipToTana, with the node cache kept in            *)
(* chrome.storage.local between them.                                      *)
(***************************************************************************)
ReclipInputs ==
    [title : {<<"t">>},
     content : {<< <<"a", "a">> >>},
     metadata : [author : {<<"x">>, <<"x", "&", "y">>}, url : {<<"u">>},
                 publishedDate : {NoValue}, publication : {<<>>, <<"p">>}],
     tagId : {"tag1"},
     fieldMappings : {NoMappings,
                      AllMapped("text", "person", "reference", "source"),
                      AllMapped("reference", "person", "text", "source")},
     isSelection : {FALSE}]

\* What the Input API answers: an error, or the nodes it created.
ApiResponses == {"error", "created"}

\* The nodeId of the i-th node the response names.
NewIds == <<"new1", "new2", "new3">>

\* NodeCache.set
CacheSet(cache, supertagId, name, nodeId) ==
    [k \in DOMAIN cache \cup {getCacheKey(supertagId, name)} |->
        IF k = getCacheKey(supertagId, name) THEN nodeId ELSE cache[k]]

\* pendingNodes.find(p => p.name.toLowerCase() === found.name.toLowerCase())
FindPending(pending, name) ==
    pending[CHOOSE i \in 1..Len(pending) :
                /\ toLowerCase(pending[i].name) = toLowerCase(name)
                /\ \A j \in 1..(i - 1) :
                       toLowerCase(pending[j].name) # toLowerCase(name)]

\* cacheCreatedNodes: the cache once the nodes found in the response from
\* the i-th on are set; the response names every pending node.
RECURSIVE cacheCreatedNodes(_, _, _)
cacheCreatedNodes(cache, pending, i) ==
    IF i > Len(pending) THEN cache
    ELSE cacheCreatedNodes(
             CacheSet(cache, FindPending(pending, pending[i].name).supertagId,
                      FindPending(pending, pending[i].name).name, NewIds[i]),
             pending, i + 1)

\* The first clip of a behaviour is remembered.
Remember(which, a, built) ==
    /\ clips' = clips + 1
    /\ firstClip' = IF clips = 0
                    THEN [formatter |-> which, args |-> a, payload |-> built]
                    ELSE firstClip

\* TanaLocalClient.clip
LocalClip ==
    /\ clips < MaxClips
    /\ \E a \in ReclipInputs :
          /\ clipArgs' = a
          /\ payload' = buildClip(a, tzOffset, ClipLimit)
          /\ Remember("TanaPasteBuilder", a, buildClip(a, tzOffset, ClipLimit))
    /\ formatter' = "TanaPasteBuilder"
    /\ pendingNodes' = <<>>
    /\ UNCHANGED <<nodeCache, clipPc>>

\* The cache after a clip that got `response` with `pending` nodes.
AfterResponse(cache, pending, response) ==
    IF response = "created" /\ Len(pending) > 0
    THEN cacheCreatedNodes(cache, pending, 1)
    ELSE cache

\* TanaClient.clip
ApiClip ==
    /\ clips < MaxClips
    /\ \E a \in ReclipInputs, response \in ApiResponses :
          /\ clipArgs' = a
          /\ payload' = buildNode(a, nodeCache, tzOffset, ClipLimit)
          /\ pendingNodes' = NodePending("TanaClient", a, nodeCache)
          /\ nodeCache' = AfterResponse(nodeCache,
                              NodePending("TanaClient", a, nodeCache), response)
          /\ Remember("TanaClient", a, buildNode(a, nodeCache, tzOffset, ClipLimit))
    /\ formatter' = "TanaClient"
    /\ UNCHANGED clipPc

\* TanaClipperPopup.clipToTana
PopupClip ==
    /\ clips < MaxClips
    /\ \E a \in ReclipInputs, response \in ApiResponses :
          /\ clipArgs' = a
          /\ payload' = buildTanaPayload(a, nodeCache, tzOffset, ClipLimit)
          /\ pendingNodes' = NodePending("TanaClipperPopup", a, nodeCache)
          /\ nodeCache' = AfterResponse(nodeCache,
                              NodePending("TanaClipperPopup", a, nodeCache), response)
          /\ Remember("TanaClipperPopup", a,
                      buildTanaPayload(a, nodeCache, tzOffset, ClipLimit))
    /\ formatter' = "TanaClipperPopup"
    /\ UNCHANGED clipPc

NextReclip ==
    /\ LocalClip \/ ApiClip \/ PopupClip
    /\ UNCHANGED <<chunkerVars, authorVars, dateVars, metaVars, mcpVars, pageVars,
                   laterVars>>

SpecReclip == Init /\ [][NextReclip]_vars

\* C18: formatting is a pure function of its arguments: formatting the same
\* title, content blocks, metadata and field mappings twice yields identical
\* payloads, whatever clips were performed in between.
C18_FormattingIsPure ==
    (/\ clips > 1
     /\ formatter = firstClip.formatter
     /\ clipArgs = firstClip.args)
        => payload = firstClip.payload

(***************************************************************************)
(* findBreakPoint on its own: texts longer than the limit.                 *)
(***************************************************************************)
BreakAlphabet == {"a", " ", ".", "!", "\n"}

\* The texts findBreakPoint is called with: one or two characters longer
\* than the limit, letters up to the last index before half of the limit.
BreakTexts(maxLength) ==
    {[i \in 1..(maxLength \div 2) |-> "a"] \o rest :
        rest \in [1..(maxLength + 1 - maxLength \div 2) -> BreakAlphabet]
                 \cup [1..(maxLength + 2 - maxLength \div 2) -> BreakAlphabet]}

\* const breakPoint = this.findBreakPoint(remaining, MAX_CONTENT_LENGTH)
FindBreakPointCall ==
    /\ breakCall = NoValue
    /\ \E text \in BreakTexts(BreakLimit) :
          breakCall' = [text |-> text, maxLength |-> BreakLimit,
                        breakPoint |-> findBreakPoint(text, BreakLimit)]
    /\ UNCHANGED <<chunkerVars, authorVars, dateVars, clipVars, metaVars, mcpVars,
                   pageVars, reclipVars, probe, finalVars>>

NextBreak == FindBreakPointCall

SpecBreak == Init /\ [][NextBreak]_vars

\* A break at index i is acceptable when it lies past half of the limit.
Acceptable(i, maxLength) == 2 * i > maxLength

\* The indices at or before the limit at which a sentence-ending punctuation
\* followed by a space stands.
SentenceEnds(text, maxLength) ==
    {i \in 0..maxLength :
        \E k \in 1..Len(sentenceEnders) : MatchAt(text, sentenceEnders[k], i)}

\* The break the strategies are said to give, in their order: the last
\* paragraph break, the last line break, just after the last sentence-ending
\* punctuation, the last space, else the limit.
StatedBreak(text, maxLength) ==
    IF Acceptable(lastIndexOf(text, <<"\n", "\n">>, maxLength), maxLength)
    THEN lastIndexOf(text, <<"\n", "\n">>, maxLength)
    ELSE IF Acceptable(lastIndexOf(text, <<"\n">>, maxLength), maxLength)
    THEN lastIndexOf(text, <<"\n">>, maxLength)
    ELSE IF \E i \in SentenceEnds(text, maxLength) : Acceptable(i, maxLength)
    THEN SetMax(SentenceEnds(text, maxLength)) + 1
    ELSE IF Acceptable(lastIndexOf(text, <<" ">>, maxLength), maxLength)
    THEN lastIndexOf(text, <<" ">>, maxLength)
    ELSE maxLength

\* C21: findBreakPoint returns the break of the first strategy that applies
\* (paragraph break, line break, sentence end, space, hard cut), and within
\* the sentence strategy the break is just after the last sentence-ending
\* punctuation at or before the limit.
C21_FirstStrategyLastBreak ==
    breakCall # NoValue =>
        breakCall.breakPoint = StatedBreak(breakCall.text, breakCall.maxLength)

(***************************************************************************)
(* Structured data and the published date: getJsonLd and                   *)
(* extractPublishedDate of content.js.                                     *)
(***************************************************************************)
\* What JSON.parse makes of a script block: it throws (invalid), or gives
\* null, or an object with its @type and its @graph.
InvalidJson == [kind |-> "invalid"]

JsonNull == [kind |-> "null"]

\* An entry of a @graph array, or a block: datePublished and dateCreated are
\* NoValue when the object has none.
JsonObject(type, graph, datePublished, dateCreated) ==
    [kind |-> "object", type |-> type, graph |-> graph,
     datePublished |-> datePublished, dateCreated |-> dateCreated]

\* The @graph property: absent, an object that is no array, or an array.
NoGraph == [kind |-> "absent"]

GraphObject == [kind |-> "object"]

GraphArray(items) == [kind |-> "array", items |-> items]

ArticleTypes == {"Article", "NewsArticle", "BlogPosting"}

\* data['@graph'].find(item => ...): the index of the first article-typed
\* entry, 0 when there is none, -1 when it throws: the graph has no find, or
\* an entry before the first article is null (item['@type'] of null).
FindArticle(graph) ==
    IF graph.kind # "array" THEN 0 - 1
    ELSE LET stops == {k \in 1..Len(graph.items) :
                          \/ graph.items[k].kind = "null"
                          \/ graph.items[k].type \in ArticleTypes}
         IN  IF stops = {} THEN 0
             ELSE IF graph.items[SetMin(stops)].kind = "null" THEN 0 - 1
             ELSE SetMin(stops)

\* JSON.parse or the body of the try throws on the block.
BlockThrows(data) ==
    \/ data.kind \in {"invalid", "null"}
    \/ data.graph.kind # "absent" /\ FindArticle(data.graph) < 0

\* One iteration of the loop of getJsonLd: k when the k-th graph entry is
\* returned, 0 when the block itself is, -1 when the loop goes on to the
\* next block (nothing matched, or an exception was caught).
ScanBlock(data) ==
    IF BlockThrows(data) THEN 0 - 1
    ELSE IF data.graph.kind # "absent" /\ FindArticle(data.graph) > 0
    THEN FindArticle(data.graph)
    ELSE IF data.type \in ArticleTypes THEN 0
    ELSE 0 - 1

\* A getJsonLd whose try does not catch: the first block that throws ends
\* the lookup.
getJsonLd_Propagates(blocks) ==
    LET throwing == {i \in 1..Len(blocks) : BlockThrows(blocks[i])}
        hits == {i \in 1..Len(blocks) : ScanBlock(blocks[i]) >= 0}
    IN  IF hits = {} \/ (throwing # {} /\ SetMin(throwing) < SetMin(hits))
        THEN [block |-> 0, entry |-> 0]
        ELSE [block |-> SetMin(hits), entry |-> ScanBlock(blocks[SetMin(hits)])]

\* content.js getJsonLd: the place of the object returned, block 0 for null.
getJsonLd(blocks) ==
    LET hits == {i \in 1..Len(blocks) : ScanBlock(blocks[i]) >= 0}
    IN  IF hits = {} THEN [block |-> 0, entry |-> 0]
        ELSE [block |-> SetMin(hits), entry |-> ScanBlock(blocks[SetMin(hits)])]

\* The object at a place of the blocks.
JsonLdAt(blocks, place) ==
    IF place.entry = 0 THEN blocks[place.block]
    ELSE blocks[place.block].graph.items[place.entry]

\* jsonLd?.datePublished || jsonLd?.dateCreated
JsonLdDate(blocks) ==
    IF getJsonLd(blocks).block = 0 THEN NoValue
    ELSE IF JsonLdAt(blocks, getJsonLd(blocks)).datePublished # NoValue
    THEN JsonLdAt(blocks, getJsonLd(blocks)).datePublished
    ELSE JsonLdAt(blocks, getJsonLd(blocks)).dateCreated

\* The sources of extractPublishedDate, in order; NoValue is a missing
\* element or attribute.
DateSources(h) ==
    <<h.articlePublishedTime, h.publishDate, h.metaDate, h.timeDatetime,
      h.itempropContent, h.itempropDatetime, JsonLdDate(h.blocks)>>

\* content.js extractPublishedDate: the formatted value of the first source
\* that has one (source 0 and NoValue for null).
extractPublishedDate(h, off) ==
    LET hits == {i \in 1..Len(DateSources(h)) : DateSources(h)[i] # NoValue}
    IN  IF hits = {} THEN [value |-> NoValue, source |-> 0]
        ELSE [value |-> formatDate(DateSources(h)[SetMin(hits)], off),
              source |-> SetMin(hits)]

\* The @graph properties tried.
GraphEntry(type) == JsonObject(type, NoGraph, NoValue, NoValue)

GraphSamples ==
    {NoGraph, GraphObject, GraphArray(<<>>),
     GraphArray(<<GraphEntry("Person")>>),
     GraphArray(<<JsonNull, GraphEntry("Article")>>),
     GraphArray(<<GraphEntry("Person"), GraphEntry("NewsArticle")>>),
     GraphArray(<<GraphEntry("Article"), JsonNull>>),
     GraphArray(<<GraphEntry("Person"), JsonNull>>)}

\* The script blocks tried.
BlockSamples ==
    {InvalidJson, JsonNull}
        \cup {JsonObject(type, graph, NoValue, NoValue) :
                 type \in {"BlogPosting", "Person"}, graph \in GraphSamples}

\* The pages extractPublishedDate is run on: every source is missing or
\* holds a day of its own.
DateHeads ==
    [articlePublishedTime : {NoValue, IsoDate(1)},
     publishDate : {NoValue, IsoDate(2)},
     metaDate : {NoValue, IsoDate(3)},
     timeDatetime : {NoValue, IsoDate(4)},
     itempropContent : {NoValue, IsoDate(5)},
     itempropDatetime : {NoValue, IsoDate(6)},
     blocks : {<<>>, <<InvalidJson>>}
                  \cup {<<JsonObject("Article", NoGraph, published, created)>> :
                           published \in {NoValue, IsoDate(7)},
                           created \in {NoValue, IsoDate(8)}}
                  \cup {<<InvalidJson, JsonObject("Article", NoGraph, IsoDate(7), NoValue)>>}]

\* getJsonLd runs on a page.
GetJsonLd ==
    /\ probe = NoValue
    /\ \E n \in 0..MaxBlocks :
          \E blocks \in [1..n -> BlockSamples] :
             probe' = [field |-> "jsonLd", blocks |-> blocks,
                       place |-> getJsonLd(blocks)]
    /\ UNCHANGED <<chunkerVars, authorVars, dateVars, clipVars, metaVars, mcpVars,
                   pageVars, reclipVars, breakCall, finalVars>>

\* extractPublishedDate runs on a page.
ExtractPublishedDateOf ==
    /\ probe = NoValue
    /\ \E h \in DateHeads :
          probe' = [field |-> "publishedDate", head |-> h]
                       @@ extractPublishedDate(h, tzOffset)
    /\ UNCHANGED <<chunkerVars, authorVars, dateVars, clipVars, metaVars, mcpVars,
                   pageVars, reclipVars, breakCall, finalVars>>

NextProbe == GetJsonLd \/ ExtractPublishedDateOf

SpecProbe == Init /\ [][NextProbe]_vars

\* The sources in the order they are said to be probed: the structured data
\* before the itemprop attributes.
StatedDateSources(h) ==
    <<h.articlePublishedTime, h.publishDate, h.metaDate, h.timeDatetime,
      JsonLdDate(h.blocks), h.itempropContent, h.itempropDatetime>>

\* C22: the published date is taken from the first source that has a
\* value, in the order article:published_time, publish-date, date,
\* time[datetime], structured data, itemprop attributes: when both the
\* structured data and an itemprop attribute carry a date and no earlier
\* source does, the structured-data date is used.
C22_StructuredDataBeforeItemprop ==
    (probe # NoValue /\ probe.field = "publishedDate") =>
        LET stated == StatedDateSources(probe.head)
            hits == {i \in 1..Len(stated) : stated[i] # NoValue}
        IN  IF hits = {} THEN probe.value = NoValue
            ELSE probe.value = formatDate(stated[SetMin(hits)], tzOffset)

\* A block that cannot be read: no JSON, no object, a @graph that is no
\* array or holds a null entry.
Malformed(data) ==
    \/ data.kind \in {"invalid", "null"}
    \/ data.graph.kind = "object"
    \/ /\ data.graph.kind = "array"
       /\ \E k \in 1..Len(data.graph.items) : data.graph.items[k].kind = "null"

\* The article-typed entries of the graph of a block.
ArticleEntries(data) ==
    IF data.kind # "object" \/ data.graph.kind # "array" THEN {}
    ELSE {k \in 1..Len(data.graph.items) :
             /\ data.graph.items[k].kind = "object"
             /\ data.graph.items[k].type \in ArticleTypes}

\* The block holds an article: as a graph entry or as the block itself.
HasArticle(data) ==
    /\ data.kind = "object"
    /\ ArticleEntries(data) # {} \/ data.type \in ArticleTypes

\* C23: the lookup returns the first article-typed match (a graph entry, or
\* the block itself) across the blocks in document order, or none; a block
\* that is invalid or malformed is skipped and never prevents a later valid
\* block from being used.
C23_FirstArticleAcrossBlocks ==
    (probe # NoValue /\ probe.field = "jsonLd") =>
        LET blocks == probe.blocks
            place == probe.place
            valid == {i \in 1..Len(blocks) : HasArticle(blocks[i]) /\ ~Malformed(blocks[i])}
        IN  /\ place.block = 0 =>
                  \A i \in 1..Len(blocks) : Malformed(blocks[i]) \/ ~HasArticle(blocks[i])
            /\ place.block # 0 =>
                  /\ place.block \in 1..Len(blocks)
                  /\ \A j \in 1..(place.block - 1) :
                         Malformed(blocks[j]) \/ ~HasArticle(blocks[j])
                  /\ IF ArticleEntries(blocks[place.block]) # {}
                     THEN place.entry = SetMin(ArticleEntries(blocks[place.block]))
                     ELSE place.entry = 0 /\ blocks[place.block].type \in ArticleTypes
            /\ valid # {} => place.block # 0 /\ place.block <= SetMin(valid)

\* An article found in a block that follows an invalid block and a
\* malformed one.
C23_Witness ==
    /\ probe # NoValue
    /\ probe.field = "jsonLd"
    /\ Len(probe.blocks) > 1
    /\ Malformed(probe.blocks[1])
    /\ probe.place.block = Len(probe.blocks)

(***************************************************************************)
(* Readability (README.md): region selection by semantic selectors and by  *)
(* score.  Scores are kept in hundredths, so that textLength / 100 stays   *)
(* an integer.                                                             *)
(***************************************************************************)
\* The class and id names of the pages tried, and which of them the
\* patterns match (case-insensitive substring alternatives).
\* UNLIKELY_CANDIDATES: sidebar, extra.
UnlikelyNames == {"sidebar", "main-sidebar", "extra"}

\* OK_MAYBE_CANDIDATES: main, content.
MaybeNames == {"main-sidebar", "content"}

\* POSITIVE_PATTERNS: main, post, content.
PositiveNames == {"main-sidebar", "post", "content"}

\* NEGATIVE_PATTERNS: sidebar, promo.
NegativeNames == {"sidebar", "main-sidebar", "promo"}

\* PATTERN.test(className + ' ' + id)
Test(names, el) == el.cls \in names \/ el.id \in names

\* UNLIKELY_CANDIDATES matches and OK_MAYBE_CANDIDATES does not.
Rejected(el) == Test(UnlikelyNames, el) /\ ~Test(MaybeNames, el)

\* A test that rejects nothing.
RejectedOutright_Never(el) == FALSE

\* if (UNLIKELY_CANDIDATES.test(...)) if (!OK_MAYBE_CANDIDATES.test(...)) return 0
RejectedOutright(el) == Rejected(el)

\* Readability._getTextLength
getTextLength(doc, stores, h) == Len(trim(textContent(doc, stores, h)))

\* The sum of link.textContent.length over the links.
RECURSIVE LinkLength(_, _, _, _, _)
LinkLength(doc, stores, h, links, i) ==
    IF i > Len(links) THEN 0
    ELSE Len(textContent(doc, stores, Within(h, links[i])))
             + LinkLength(doc, stores, h, links, i + 1)

\* Readability._getLinkDensity(element) > 0.5
DenseLinks(doc, stores, h) ==
    \/ getTextLength(doc, stores, h) = 0
    \/ 2 * LinkLength(doc, stores, h, querySelectorAll(doc, stores, h, {Tag("a")}), 1)
           > getTextLength(doc, stores, h)

\* if (textLength > 100) score += Math.min(textLength / 100, 50), in
\* hundredths.
TextBonus(textLength) ==
    IF textLength > TextBonusFloor THEN Min(textLength, 50 * 100) ELSE 0

\* Readability._scoreElement, in hundredths.
scoreElement(doc, stores, h) ==
    IF RejectedOutright(doc[h.root]) THEN 0
    ELSE (IF Test(PositiveNames, doc[h.root]) THEN 25 * 100 ELSE 0)
         - (IF Test(NegativeNames, doc[h.root]) THEN 25 * 100 ELSE 0)
         + (IF doc[h.root].tag = "article" THEN 50 * 100 ELSE 0)
         + (IF doc[h.root].tag = "section" THEN 10 * 100 ELSE 0)
         + (IF doc[h.root].tag = "div" THEN 5 * 100 ELSE 0)
         + TextBonus(getTextLength(doc, stores, h))
         + Len(querySelectorAll(doc, stores, h, {Tag("p")})) * 3 * 100
         - (IF DenseLinks(doc, stores, h) THEN 50 * 100 ELSE 0)

\* Readability._getCandidates: the elements that score above zero, in
\* document order.
getCandidates(doc, stores, h) ==
    SelectSeq(querySelectorAll(doc, stores, h,
                  {Tag("div"), Tag("section"), Tag("article"), Tag("p")}),
              LAMBDA n : scoreElement(doc, stores, Within(h, n)) > 0)

\* candidates.sort((a, b) => b.score - a.score); candidates[0]: the first
\* of the candidates with the highest score.
BestOf(doc, stores, h, candidates) ==
    candidates[SetMin({i \in 1..Len(candidates) :
        \A j \in 1..Len(candidates) :
            scoreElement(doc, stores, Within(h, candidates[j]))
                <= scoreElement(doc, stores, Within(h, candidates[i]))})]

semanticSelectors ==
    <<Tag("article"), Role("main"), Tag("main"), Class("post-content"),
      Class("article-content"), Class("article-body"), Class("entry-content"),
      Class("story-body"), Class("post-body"), Id("article-body"),
      Class("content-body")>>

\* The semantic selectors whose first match has more text than the
\* threshold.
SemanticHits(doc, stores, h, charThreshold) ==
    {i \in 1..Len(semanticSelectors) :
        /\ querySelector(doc, stores, h, {semanticSelectors[i]}) # 0
        /\ getTextLength(doc, stores,
               Within(h, querySelector(doc, stores, h, {semanticSelectors[i]})))
              > charThreshold}

\* The candidate or the body the scoring chooses.
ScoredRegion(doc, stores, h, candidates) ==
    IF Len(candidates) = 0 THEN [element |-> 0, by |-> "body"]
    ELSE [element |-> BestOf(doc, stores, h, candidates), by |-> "score"]

\* Readability._grabArticle: the element that is cleaned and returned, and
\* the way it was found.
grabArticle(doc, stores, h, charThreshold) ==
    IF SemanticHits(doc, stores, h, charThreshold) # {}
    THEN [element |-> querySelector(doc, stores, h,
                          {semanticSelectors[SetMin(SemanticHits(doc, stores, h,
                                                                 charThreshold))]}),
          by |-> "selector"]
    ELSE ScoredRegion(doc, stores, h, getCandidates(doc, stores, h))

\* Readability._removeUnwantedElements: the stores after it.  The pages
\* tried hold no hidden element.
removeNonContent(doc, stores, h) ==
    RemoveAll(doc, stores, h.store,
              Range(querySelectorAll(doc, stores, h,
                  {Tag(t) : t \in {"script", "style", "noscript", "iframe", "form",
                                   "svg", "canvas", "button", "input", "select",
                                   "textarea"}})))

\* Readability._cleanArticle: the stores after it; the clone is the last.
cleanArticle(doc, stores, h) ==
    RemoveAll(doc, cloneNode(stores, h), CloneStore(stores, h),
              Range(querySelectorAll(doc, stores, h,
                  {Tag(t) : t \in {"nav", "header", "footer", "aside"}}
                  \cup {Class(c) : c \in {"nav", "navigation", "menu", "sidebar",
                                          "comments", "comment", "related",
                                          "social", "share", "ad", "ads",
                                          "advertisement"}}
                  \cup {Role("navigation"), Role("complementary")})))

\* The result of parse, of the region chosen in the cleaned copy of the
\* document (store 2): the text of its cleaned clone (store 3).
Parsed(doc, stores, chosen) ==
    [element |-> chosen.element, by |-> chosen.by,
     textContent |->
         textContent(doc, cleanArticle(doc, stores, Within([LiveDocument EXCEPT !.store = 2], chosen.element)),
                     [store |-> 3, root |-> chosen.element, container |-> FALSE]),
     live |-> stores[1]]

\* The stores in which _grabArticle runs: the live document, and its copy
\* without the non-content elements.
Prepared(doc) ==
    removeNonContent(doc, cloneNode(<<{}>>, LiveDocument), [LiveDocument EXCEPT !.store = 2])

\* Readability.parse
ReadabilityParseOf(doc, stores, charThreshold) ==
    Parsed(doc, stores,
           grabArticle(doc, stores, [LiveDocument EXCEPT !.store = 2], charThreshold))

\* The pages Readability is run on: a div with a paragraph and a link, a
\* section, and an article whose text may stay under the threshold.
ReadabilityNames == {"", "sidebar", "main-sidebar", "post", "extra"}

ReadabilityPage(cls1, id1, t1, t2, t3, cls4, t4, t5) ==
    <<Element("div", cls1, id1, "", 0, t1),
      Element("p", "", "", "", 1, t2),
      Element("a", "", "", "", 1, t3),
      Element("section", cls4, "", "", 0, t4),
      Element("article", "", "", "", 0, t5)>>

ReadabilityPages ==
    {ReadabilityPage(cls1, id1, t1, t2, t3, cls4, t4, t5) :
        cls1 \in ReadabilityNames, id1 \in {"", "content"},
        t1 \in {<<>>, Repeat("r", TextBonusFloor + 20)},
        t2 \in {<<>>, LongText("p")},
        t3 \in {<<>>, Repeat("l", 2 * TextBonusFloor)},
        cls4 \in ReadabilityNames,
        t4 \in {<<>>, Repeat("s", TextBonusFloor + 50)},
        t5 \in {<<>>, Repeat("t", CharThreshold), Repeat("t", CharThreshold + 1)}}

\* new Readability(document, {charThreshold}).parse()
ReadabilityParse ==
    /\ article = NoValue
    /\ \E doc \in ReadabilityPages :
           article' = [doc |-> doc,
                       parsed |-> ReadabilityParseOf(doc, Prepared(doc), CharThreshold)]
    /\ UNCHANGED <<chunkerVars, authorVars, dateVars, clipVars, metaVars, mcpVars,
                   pageVars, reclipVars, breakCall, probe, bgVars, cacheVars,
                   issued>>

NextReadability == ReadabilityParse

SpecReadability == Init /\ [][NextReadability]_vars

\* The handle of the document _grabArticle works on.
ParsedDocument == [LiveDocument EXCEPT !.store = 2]

\* The score of element n of the parsed page, in hundredths.
ScoreIn(doc, n) == scoreElement(doc, Prepared(doc), Within(ParsedDocument, n))

\* The elements of the parsed page that are candidates.
CandidatesIn(doc) ==
    {n \in 1..Len(doc) : doc[n].tag \in {"div", "section", "article", "p"}
                             /\ ScoreIn(doc, n) > 0}

\* C24: when no semantic selector qualifies, the region returned is the
\* candidate with the highest score; an element whose class and id match
\* the unlikely pattern and not the maybe pattern is never the region; and
\* when no candidate scores above zero the region is the document body.
C24_HighestScoringCandidate ==
    (article # NoValue /\ article.parsed.by # "selector") =>
        /\ CandidatesIn(article.doc) # {} =>
               /\ article.parsed.element \in CandidatesIn(article.doc)
               /\ \A c \in CandidatesIn(article.doc) :
                      ScoreIn(article.doc, c) <= ScoreIn(article.doc, article.parsed.element)
        /\ \A n \in 1..Len(article.doc) :
               (Test(UnlikelyNames, article.doc[n]) /\ ~Test(MaybeNames, article.doc[n]))
                   => article.parsed.element # n
        /\ CandidatesIn(article.doc) = {} => article.parsed.element = 0

\* A page where an element the unlikely pattern rejects would otherwise
\* have the highest score, and the region is another candidate.
C24_Witness ==
    /\ article # NoValue
    /\ article.parsed.by = "score"
    /\ \E n \in 1..Len(article.doc) :
           /\ Test(UnlikelyNames, article.doc[n]) /\ ~Test(MaybeNames, article.doc[n])
           /\ Len(article.doc[n].text) > TextBonusFloor
    /\ Cardinality(CandidatesIn(article.doc)) > 1

\* A page where nothing scores above zero and the body is the region.
C24_BodyWitness == article # NoValue /\ article.parsed.by = "body"

(***************************************************************************)
(* background.js and popup.js: the entry points of a clip.  The handlers   *)
(* run one await at a time; between two awaits the user may change the     *)
(* selection of the page.                                                  *)
(***************************************************************************)
\* The context menu items, the keyboard shortcut and the popup's button.
Entries == {"clip-page-to-tana", "clip-selection-to-tana", "clip-image-to-tana",
            "clip-link-to-tana", "clip-to-tana", "popup"}

\* The entries that run clipPage.
PageEntries == {"clip-page-to-tana", "clip-selection-to-tana", "clip-to-tana"}

\* chrome.storage.sync: "" is a key that is not stored.
Settings ==
    {[configured |-> TRUE, defaultTarget |-> d, customNodeId |-> n] :
        d \in {"", "INBOX", "TODAY", "CUSTOM"}, n \in {"", "node1"}}
    \cup {[configured |-> FALSE, defaultTarget |-> "", customNodeId |-> ""]}

\* The pages clipped: with and without an article element, with and without
\* paragraphs long enough.
BackgroundPages ==
    {Page(kind, t4, t7, <<>>, FALSE) :
        kind \in {"article", "none"}, t4 \in {<<>>, LongText("a")},
        t7 \in {<<>>, LongText("b")}}

\* The tab shows a page when the user reaches for the clipper.
OpenTab ==
    /\ bgPc = "idle"
    /\ document = <<>>
    /\ \E doc \in BackgroundPages, selected \in Selections :
          /\ document' = doc
          /\ selection' = selected
    /\ UNCHANGED <<liveRemoved, injected, listeners, injections, request, responses,
                   region, bgVars>>

\* The user selects something else, or nothing, while a handler runs.
SelectionChange ==
    /\ bgPc \notin {"idle", "done"}
    /\ \E selected \in Selections \ {selection} : selection' = selected
    /\ UNCHANGED <<document, liveRemoved, injected, listeners, injections, request,
                   responses, region, bgVars>>

\* contextMenus.onClicked, commands.onCommand, or the popup opens.
Trigger ==
    /\ bgPc = "idle"
    /\ document # <<>>
    /\ \E e \in Entries :
          /\ entry' = e
          /\ bgPc' = IF e = "clip-to-tana" THEN "command"
                     ELSE IF e = "popup" THEN "popup"
                     ELSE "settings"
          /\ selectionOnly' = (e = "clip-selection-to-tana")
    /\ UNCHANGED <<pageVars, settings, pageInfo, contentResponse, fromSelection, posted,
                   notice>>

\* chrome.scripting.executeScript throws (a page scripts may not enter);
\* injectContentScript logs it.
InjectionFails ==
    /\ listeners = 0
    /\ UNCHANGED pageVars

\* onCommand: await injectContentScript(tab.id)
CommandInject ==
    /\ bgPc = "command"
    /\ InjectContentScript \/ InjectionFails
    /\ bgPc' = "check"
    /\ UNCHANGED <<entry, selectionOnly, settings, pageInfo, contentResponse,
                   fromSelection, posted, notice>>

\* onCommand: checkSelection, then clipPage(tab, response?.hasSelection ||
\* false); clipPage(tab, false) when sendMessage throws.
CommandCheck ==
    /\ bgPc = "check"
    /\ IF listeners = 0
       THEN /\ selectionOnly' = FALSE
            /\ UNCHANGED pageVars
       ELSE /\ Deliver([action |-> "checkSelection"])
            /\ selectionOnly' = (responses' # <<>> /\ responses'[1].hasSelection)
    /\ bgPc' = "settings"
    /\ UNCHANGED <<entry, settings, pageInfo, contentResponse, fromSelection, posted,
                   notice>>

\* clipPage, clipImage, clipLink: chrome.storage.sync.get and the test of
\* apiToken and supertags.
ReadSettings ==
    /\ bgPc = "settings"
    /\ \E s \in Settings :
          /\ settings' = s
          /\ IF s.configured
             THEN bgPc' = "inject" /\ UNCHANGED notice
             ELSE bgPc' = "done" /\ notice' = "Setup Required"
    /\ UNCHANGED <<pageVars, entry, selectionOnly, pageInfo, contentResponse,
                   fromSelection, posted>>

\* clipPage, clipImage, clipLink: await injectContentScript(tab.id)
Inject ==
    /\ bgPc = "inject"
    /\ InjectContentScript \/ InjectionFails
    /\ bgPc' = "getMetadata"
    /\ UNCHANGED <<entry, selectionOnly, settings, pageInfo, contentResponse,
                   fromSelection, posted, notice>>

\* The response sendMessage resolves to: the first one sent, undefined when
\* no listener answered.
FirstResponse(sentBack) == IF sentBack = <<>> THEN NoValue ELSE sentBack[1]

\* clipPage, clipImage, clipLink: getMetadata.  sendMessage throws when the
\* page has no listener; clipPage gives up without metadata, the other two
\* go on with the tab's title.
AskMetadata ==
    /\ bgPc = "getMetadata"
    /\ IF listeners = 0
       THEN /\ bgPc' = "done"
            /\ notice' = "Error"
            /\ UNCHANGED <<pageVars, pageInfo>>
       ELSE /\ Deliver([action |-> "getMetadata"])
            /\ pageInfo' = FirstResponse(responses')
            /\ IF entry \in PageEntries /\ FirstResponse(responses') = NoValue
               THEN bgPc' = "done" /\ notice' = "Error"
               ELSE /\ bgPc' = IF entry \in PageEntries THEN "getContent" ELSE "send"
                    /\ UNCHANGED notice
    /\ UNCHANGED <<entry, selectionOnly, settings, contentResponse, fromSelection, posted>>

\* !contentResponse?.content and !contentResponse || !contentResponse.content:
\* there is no response; an array, empty or not, is truthy.
NoContent(response) == response = NoValue

\* contentResponse.content.length === 0
EmptyContent(response) == response.content = <<>>

\* clipPage's test of the content: it has no test of the length.
Unusable(response) == NoContent(response)

\* clipToTana's test of the content.
PopupUnusable(response) == NoContent(response) \/ EmptyContent(response)

\* The content script answers getContent from the selection.
AnsweredFromSelection(only) ==
    only /\ hasSelection(document, <<liveRemoved>>, selection)

\* clipPage: getContent with selectionOnly && metadataResponse.hasSelection.
AskContent ==
    /\ bgPc = "getContent"
    /\ Deliver([action |-> "getContent",
                selectionOnly |-> selectionOnly /\ pageInfo.hasSelection])
    /\ contentResponse' = FirstResponse(responses')
    /\ fromSelection' = AnsweredFromSelection(selectionOnly /\ pageInfo.hasSelection)
    /\ IF Unusable(FirstResponse(responses'))
       THEN bgPc' = "done" /\ notice' = "Error"
       ELSE bgPc' = "send" /\ UNCHANGED notice
    /\ UNCHANGED <<entry, selectionOnly, settings, pageInfo, posted>>

\* let targetNodeId = settings.defaultTarget || 'INBOX'; ...
TargetOf(kept) ==
    IF kept.defaultTarget = "CUSTOM" /\ kept.customNodeId # ""
    THEN kept.customNodeId
    ELSE IF kept.defaultTarget \in {"", "TODAY"} THEN "INBOX"
    ELSE kept.defaultTarget

\* TanaClient.clip: targetNodeId: targetNodeId || 'INBOX'
PayloadTarget(targetNodeId) == IF targetNodeId = "" THEN "INBOX" ELSE targetNodeId

\* The title of the pages clipped.
PageTitle == <<"T">>

\* The payload TanaClient.clip posts.
ClipSent(targetNodeId, isSelection, blocks, selected) ==
    [targetNodeId |-> PayloadTarget(targetNodeId),
     name |-> NodeName(PageTitle, isSelection),
     content |-> blocks,
     fromSelection |-> selected]

\* clipPage, clipImage, clipLink: the target, client.clip and the
\* notification of its result.
SendClip ==
    /\ bgPc = "send"
    /\ posted' = Append(posted,
           IF entry \in PageEntries
           THEN ClipSent(TargetOf(settings), selectionOnly /\ pageInfo.hasSelection,
                         contentResponse.content, fromSelection)
           ELSE ClipSent(TargetOf(settings), TRUE, <<entry>>, FALSE))
    /\ \E success \in BOOLEAN : notice' = IF success THEN "Success" ELSE "Error"
    /\ bgPc' = "done"
    /\ UNCHANGED <<pageVars, entry, selectionOnly, settings, pageInfo, contentResponse,
                   fromSelection>>

\* TanaClipperPopup.init: loadSettings, isConfigured, and loadPageData's
\* executeScript.
PopupInit ==
    /\ bgPc = "popup"
    /\ \E s \in Settings :
          /\ settings' = s
          /\ IF s.configured
             THEN /\ InjectContentScript \/ InjectionFails
                  /\ bgPc' = "popupData"
                  /\ UNCHANGED notice
             ELSE /\ bgPc' = "done"
                  /\ notice' = "Setup Required"
                  /\ UNCHANGED pageVars
    /\ UNCHANGED <<entry, selectionOnly, pageInfo, contentResponse, fromSelection, posted>>

\* loadPageData: getMetadata sets this.metadata and this.hasSelection, and
\* updatePreview checks the box when there is a selection.
PopupData ==
    /\ bgPc = "popupData"
    /\ IF listeners = 0
       THEN UNCHANGED <<pageVars, pageInfo, selectionOnly>>
       ELSE /\ Deliver([action |-> "getMetadata"])
            /\ pageInfo' = FirstResponse(responses')
            /\ selectionOnly' = (FirstResponse(responses') # NoValue
                                    /\ FirstResponse(responses').hasSelection)
    /\ bgPc' = "popupReady"
    /\ UNCHANGED <<entry, settings, contentResponse, fromSelection, posted, notice>>

\* The user unchecks "clip selection only".
Uncheck ==
    /\ bgPc = "popupReady"
    /\ selectionOnly
    /\ selectionOnly' = FALSE
    /\ UNCHANGED <<pageVars, bgPc, entry, settings, pageInfo, contentResponse,
                   fromSelection, posted, notice>>

\* TanaClipperPopup.clipToTana
ClipToTana ==
    /\ bgPc = "popupReady"
    /\ bgPc' = "done"
    /\ IF pageInfo = NoValue
       THEN /\ notice' = "Error"
            /\ UNCHANGED <<pageVars, contentResponse, fromSelection, posted>>
       ELSE /\ Deliver([action |-> "getContent",
                        selectionOnly |-> selectionOnly /\ pageInfo.hasSelection])
            /\ contentResponse' = FirstResponse(responses')
            /\ fromSelection' =
                   AnsweredFromSelection(selectionOnly /\ pageInfo.hasSelection)
            /\ IF PopupUnusable(FirstResponse(responses'))
               THEN notice' = "Error" /\ UNCHANGED posted
               ELSE /\ posted' = Append(posted,
                           ClipSent("INBOX", selectionOnly /\ pageInfo.hasSelection,
                                    FirstResponse(responses').content,
                                    AnsweredFromSelection(selectionOnly
                                                              /\ pageInfo.hasSelection)))
                    /\ \E success \in BOOLEAN :
                           notice' = IF success THEN "Success" ELSE "Error"
    /\ UNCHANGED <<entry, selectionOnly, settings, pageInfo>>

NextBackground ==
    /\ \/ OpenTab \/ SelectionChange \/ Trigger \/ CommandInject \/ CommandCheck
       \/ ReadSettings \/ Inject \/ AskMetadata \/ AskContent \/ SendClip
       \/ PopupInit \/ PopupData \/ Uncheck \/ ClipToTana
    /\ UNCHANGED <<chunkerVars, authorVars, dateVars, clipVars, metaVars, mcpVars,
                   reclipVars, breakCall, probe, article, cacheVars,
                   issued>>

SpecBackground == Init /\ [][NextBackground]_vars

\* A clip of the page was sent by clipPage.
PageClipSent == bgPc = "done" /\ entry \in PageEntries /\ posted # <<>>

\* The root name of the clip starts with "Selection from: ".
LabelledSelection(clip) ==
    /\ Len(clip.name) >= Len(SelectionPrefix)
    /\ SubSeq(clip.name, 1, Len(SelectionPrefix)) = SelectionPrefix

\* C25: a clip that clipPage sends is labelled a selection clip if and only
\* if its content was extracted from the user's selection, however the
\* selection changes between getMetadata and getContent.
C25_LabelMatchesContent ==
    PageClipSent => (LabelledSelection(posted[1]) <=> posted[1].fromSelection)

\* Content extraction yielded no blocks.
NoBlocks == contentResponse # NoValue /\ contentResponse.content = <<>>

\* C26: when content extraction yields no blocks, the handler reports an
\* error and sends no clip, on every entry point.
C26_EmptyContentIsAnError ==
    (bgPc = "done" /\ NoBlocks) => (posted = <<>> /\ notice = "Error")

\* C27: the target node id sent with a clip is INBOX or the configured
\* non-empty custom node id, and never the placeholder CUSTOM or TODAY.
C27_TargetIsInboxOrCustomNode ==
    \A i \in 1..Len(posted) :
        /\ \/ posted[i].targetNodeId = "INBOX"
           \/ settings.customNodeId # "" /\ posted[i].targetNodeId = settings.customNodeId
        /\ posted[i].targetNodeId \notin {"CUSTOM", "TODAY"}

(***************************************************************************)
(* Clips that overlap: each clip has its own NodeCache, loads the stored   *)
(* map, awaits the Input API, and saves its whole map.                     *)
(***************************************************************************)
Clippers == {1, 2}

\* clip / clipToTana up to its first await: await this.nodeCache.load() of a
\* NodeCache that has loaded nothing yet.
CacheLoad(p) ==
    /\ cachePc[p] = "idle"
    /\ cacheOf' = [cacheOf EXCEPT ![p] = stored]
    /\ cachePc' = [cachePc EXCEPT ![p] = "loaded"]
    /\ UNCHANGED <<stored, pendingOf, responseOf>>

\* The payload is built, which fills pendingNodes, and posted.
CachePost(p) ==
    /\ cachePc[p] = "loaded"
    /\ \E which \in {"TanaClient", "TanaClipperPopup"}, a \in ReclipInputs :
          pendingOf' = [pendingOf EXCEPT ![p] = NodePending(which, a, cacheOf[p])]
    /\ cachePc' = [cachePc EXCEPT ![p] = "posted"]
    /\ UNCHANGED <<stored, cacheOf, responseOf>>

\* NodeCache.save after cacheCreatedNodes; nothing is saved when the API
\* failed or nothing was pending.
Saved(before, cache, pending, response) ==
    IF response = "created" /\ Len(pending) > 0 THEN cache ELSE before

\* The response arrives: cacheCreatedNodes sets the new ids in the clip's
\* own map and saves that map.
CacheRespond(p) ==
    /\ cachePc[p] = "posted"
    /\ \E response \in ApiResponses :
          /\ responseOf' = [responseOf EXCEPT ![p] = response]
          /\ cacheOf' = [cacheOf EXCEPT
                            ![p] = AfterResponse(cacheOf[p], pendingOf[p], response)]
          /\ stored' = Saved(stored, AfterResponse(cacheOf[p], pendingOf[p], response),
                             pendingOf[p], response)
    /\ cachePc' = [cachePc EXCEPT ![p] = "done"]
    /\ UNCHANGED pendingOf

NextCache ==
    /\ \E p \in Clippers : CacheLoad(p) \/ CachePost(p) \/ CacheRespond(p)
    /\ UNCHANGED <<chunkerVars, authorVars, dateVars, clipVars, metaVars, mcpVars,
                   pageVars, reclipVars, breakCall, probe, article, bgVars, issued>>

SpecCache == Init /\ [][NextCache]_vars

\* The cache keys of the entries clip p added.
AddedBy(p) ==
    {getCacheKey(pendingOf[p][i].supertagId, pendingOf[p][i].name) :
        i \in 1..Len(pendingOf[p])}

\* C28: when two clips that overlap in time both complete successfully, the
\* persisted cache holds the entries added by both.
C28_NoLostCacheUpdate ==
    (\A p \in Clippers : cachePc[p] = "done" /\ responseOf[p] = "created")
        => \A p \in Clippers : AddedBy(p) \subseteq DOMAIN stored

(***************************************************************************)
(* Pages with a paragraph inside another block element.                    *)
(***************************************************************************)
\* <body> <outer>text<p/></outer> <p/> </body>
NestedPage(outerTag, outerText, innerText, after) ==
    <<Element(outerTag, "", "", "", 0, outerText),
      Element("p", "", "", "", 1, innerText),
      Element("p", "", "", "", 0, after)>>

NestedPages ==
    {NestedPage(outerTag, outerText, innerText, after) :
        outerTag \in {"blockquote", "li", "div", "article"},
        outerText \in {<<>>, LongText("q")},
        innerText \in {<<>>, ShortText, LongText("i")},
        after \in {<<>>, LongText("o")}}

\* The tab loads one of these pages; the user may have selected the outer
\* element.
LoadNested ==
    /\ document = <<>>
    /\ \E doc \in NestedPages, selected \in {0, 1} :
          /\ document' = doc
          /\ selection' = selected
    /\ liveRemoved' = {}
    /\ injected' = FALSE
    /\ listeners' = 0
    /\ injections' = 0
    /\ request' = [action |-> "none"]
    /\ responses' = <<>>
    /\ region' = 0

NextNested ==
    /\ LoadNested \/ UnloadPage \/ InjectContentScript \/ GetContent
    /\ UNCHANGED <<chunkerVars, authorVars, dateVars, clipVars, metaVars, mcpVars,
                   reclipVars, laterVars>>

SpecNested == Init /\ [][NextNested]_vars

\* The blocks of the last content response that hold the text of element n
\* (the pages give every element its own letter).
BlocksHolding(n) ==
    {i \in 1..Len(responses[1].content) :
        document[n].text[1] \in Range(responses[1].content[i])}

\* C29: the text of an element appears in at most one block of the content,
\* also when the element is nested inside another block element.
C29_EachTextInOneBlock ==
    (request.action = "getContent" /\ responses # <<>>) =>
        \A n \in 1..Len(document) :
            document[n].text # <<>> => Cardinality(BlocksHolding(n)) <= 1

(***************************************************************************)
(* McpClient with the session id the server issued last.                   *)
(***************************************************************************)
\* initialize(); the Mcp-Session-Id header of an ok response is what the
\* server issued ("" when it sent no header).
InitializeIssued ==
    \E response \in Responses, sid \in SessionIds \cup {""}, notified \in BOOLEAN :
        /\ InitializeWith(response, sid, notified)
        /\ issued' = IF response = "ok" THEN sid ELSE issued

NextSession ==
    /\ \/ /\ SendRequestCall \/ RestoreSession \/ MethodRequest \/ SendRequestExit
              \/ Restart
          /\ UNCHANGED issued
       \/ InitializeIssued
    /\ UNCHANGED <<chunkerVars, authorVars, dateVars, clipVars, metaVars, pageVars,
                   reclipVars, breakCall, probe, article, bgVars, cacheVars>>

SpecSession == Init /\ [][NextSession]_vars

\* The position in requestLog of the last initialize request that got an ok
\* response, 0 when there is none.
LastInitialize ==
    SetMax({0} \cup {i \in 1..Len(requestLog) :
                        /\ requestLog[i].method = "initialize"
                        /\ requestLog[i].response = "ok"})

\* initialize() has just completed: its notification went through and the
\* next request has not been sent yet.
InitializeCompleted ==
    /\ LastInitialize # 0
    /\ LastInitialize = Len(requestLog)
    /\ mcpPc \in {"request", "retry"}

\* C30: when initialize() completes, the client's sessionId equals the
\* stored mcpSessionId and both are the id the initialize response issued;
\* every later request of the call carries that id, not a stale one.
C30_SessionIsTheIssuedOne ==
    /\ InitializeCompleted => (sessionId = storedSession /\ sessionId = issued)
    /\ LastInitialize # 0 =>
           \A i \in (LastInitialize + 1)..Len(requestLog) :
               requestLog[i].session = issued

Next == NextChunker \/ NextAuthors \/ NextDate \/ NextClip \/ NextMetadata \/ NextMcp \/ NextPage
            \/ NextReclip \/ NextBreak \/ NextProbe \/ NextReadability
            \/ NextBackground \/ NextCache \/ NextNested \/ NextSession

Spec == Init /\ [][Next]_vars

====
